---- MODULE Spec2Model ----
(***************************************************************************)
(* Model of the AppleScript execution layer of mcp-apple-notes             *)
(* (src/src/utils/applescript.ts, the final executeAppleScript and its     *)
(* helpers).                                                               *)
(*                                                                         *)
(* Text is modelled as a sequence of tokens.  A token is a word, a         *)
(* punctuation mark, a whitespace character (" " or "\n") or an opaque     *)
(* chunk of text that contains nothing any pattern looks for.  Words are   *)
(* separated implicitly; whitespace tokens are written only where trimming *)
(* or line structure matters.  A regular expression of the source is       *)
(* modelled as a search for a phrase (a contiguous run of tokens).         *)
(***************************************************************************)
EXTENDS Integers, Sequences, FiniteSets, TLC

\* ------------------------------------------------------------------ bounds
\* Largest maxRetries option a caller passes in the model.
MaxRetriesBound == 4

\* ------------------------------------------------------- program constants
DEFAULT_TIMEOUT_MS == 30000
\* variant: three attempts by default
DEFAULT_MAX_RETRIES_Three == 1 + 2
DEFAULT_MAX_RETRIES == 1
DEFAULT_RETRY_DELAY_MS == 1000

\* --------------------------------------------------------------- text model
Q == "\""
NL == "\n"
SP == " "
DOT == "."

\* JavaScript's String.prototype.trim strips these from both ends.
IsWhitespace(w) == w \in {SP, NL}

\* Case folding done by the /i flag of the patterns: only the capitalised
\* words that occur in the modelled texts need an entry.
Lower(w) ==
  CASE w = "Lost" -> "lost"
    [] w = "Can't" -> "can't"
    [] w = "Note" -> "note"
    [] w = "Folder" -> "folder"
    [] w = "Account" -> "account"
    [] w = "Cannot" -> "cannot"
    [] w = "Busy" -> "busy"
    [] w = "Permission" -> "permission"
    [] w = "Operation" -> "operation"
    [] w = "Not" -> "not"
    [] w = "Application" -> "application"
    [] OTHER -> w

RECURSIVE TrimStart(_)
TrimStart(t) ==
  IF t # <<>> /\ IsWhitespace(Head(t)) THEN TrimStart(Tail(t)) ELSE t

RECURSIVE TrimEnd(_)
TrimEnd(t) ==
  IF t # <<>> /\ IsWhitespace(t[Len(t)])
    THEN TrimEnd(SubSeq(t, 1, Len(t) - 1))
    ELSE t

Trim(t) == TrimEnd(TrimStart(t))

\* phrase p occurs in t at position i, compared case-insensitively
PhraseAtI(t, p, i) ==
  /\ i >= 1
  /\ i + Len(p) - 1 <= Len(t)
  /\ \A k \in 1..Len(p) : Lower(t[i + k - 1]) = p[k]

\* phrase p occurs in t at position i, compared case-sensitively
PhraseAt(t, p, i) ==
  /\ i >= 1
  /\ i + Len(p) - 1 <= Len(t)
  /\ \A k \in 1..Len(p) : t[i + k - 1] = p[k]

\* /p/i
HasPhrase(t, p) == \E i \in 1..Len(t) : PhraseAtI(t, p, i)

\* /p.*q/i  ("." does not match a line break)
HasGap(t, p, q) ==
  \E i \in 1..Len(t) : \E j \in 1..Len(t) :
    /\ PhraseAtI(t, p, i)
    /\ j >= i + Len(p)
    /\ PhraseAtI(t, q, j)
    /\ \A k \in (i + Len(p))..(j - 1) : t[k] # NL

Min(S) == CHOOSE x \in S : \A y \in S : x <= y

\* /p "([^"]+)"/i : positions where p, an opening quote, at least one
\* non-quote token and a closing quote follow one another
QuotedAt(t, p) ==
  { i \in 1..Len(t) :
      /\ PhraseAtI(t, p \o <<Q>>, i)
      /\ i + Len(p) + 1 <= Len(t)
      /\ t[i + Len(p) + 1] # Q
      /\ \E j \in (i + Len(p) + 2)..Len(t) : t[j] = Q }

HasQuoted(t, p) == QuotedAt(t, p) # {}

\* match[1] of the leftmost match of /p "([^"]+)"/i
QuotedCapture(t, p) ==
  LET i == Min(QuotedAt(t, p))
      first == i + Len(p) + 1
      close == Min({ j \in (first + 1)..Len(t) : t[j] = Q })
  IN SubSeq(t, first, close - 1)

\* ------------------------------------------------------------ shell escape
\* script.replace(/'/g, "'\\''"): every single quote becomes the four
\* characters  ' \ ' '
\* variant: the quote is escaped by a backslash inside the quoted string
EscapedQuote_Backslash == <<"\\", "'">>

\* the replacement "'\\''"
EscapedQuote == <<"'", "\\", "'", "'">>

RECURSIVE escapeForShell(_)
escapeForShell(script) ==
  IF script = <<>> THEN <<>>
  ELSE (IF Head(script) = "'" THEN EscapedQuote ELSE <<Head(script)>>)
       \o escapeForShell(Tail(script))

\* ------------------------------------------------------- timeout detection
\* A value thrown by execSync: [type, killed, signal, message].
isTimeoutError(error) ==
  /\ error.type = "Error"
  /\ (error.killed = TRUE \/ error.signal = "SIGTERM")

\* variant: Math.floor in place of Math.round
MathRoundDiv1000_Floor(ms) == ms \div 1000

\* Math.round of timeoutMs / 1000 for a non-negative timeoutMs
MathRoundDiv1000(ms) == (ms + 500) \div 1000

TimeoutMessage(timeoutMs) ==
  << "Operation", "timed", "out", "after", ToString(MathRoundDiv1000(timeoutMs)),
     "seconds", DOT,
     "Notes.app may be unresponsive or the operation involves too many notes." >>

\* ------------------------------------------------------------ retry patterns
\* variant: a sixth pattern /denied/i
isRetryableError_Denied(errorMessage) ==
  \/ HasPhrase(errorMessage, <<"timed", "out">>)
  \/ HasPhrase(errorMessage, <<"time", "out">>)
  \/ HasPhrase(errorMessage, <<"not", "responding">>)
  \/ HasGap(errorMessage, <<"connection">>, <<"invalid">>)
  \/ HasPhrase(errorMessage, <<"lost", "connection">>)
  \/ HasPhrase(errorMessage, <<"busy">>)
  \/ HasPhrase(errorMessage, <<"denied">>)

\* RETRYABLE_ERROR_PATTERNS.some(pattern => pattern.test(errorMessage))
isRetryableError(errorMessage) ==
  \/ HasPhrase(errorMessage, <<"timed", "out">>)
  \/ HasPhrase(errorMessage, <<"time", "out">>)
  \/ HasPhrase(errorMessage, <<"not", "responding">>)
  \/ HasGap(errorMessage, <<"connection">>, <<"invalid">>)
  \/ HasPhrase(errorMessage, <<"lost", "connection">>)
  \/ HasPhrase(errorMessage, <<"busy">>)

\* ------------------------------------------------------------ error mapping
EXEC_MARKER == "execution error:"
ErrorNumbers == {"(-1728)", "(-1743)", "(-600)"}

\* tokens that follow position i up to the end of its line
RestOfLine(t, i) ==
  LET ends == { j \in (i + 1)..Len(t) : t[j] = NL }
      last == IF ends = {} THEN Len(t) ELSE Min(ends) - 1
  IN SubSeq(t, i + 1, last)

\* positions where /execution error: (.+?)(?:\s*\(-?\d+\))?$/m matches
ExecutionErrorAt(t) ==
  { i \in 1..Len(t) : t[i] = EXEC_MARKER /\ RestOfLine(t, i) # <<>> }

\* executionError[1].trim()
ExecutionErrorCore(t) ==
  LET rest == RestOfLine(t, Min(ExecutionErrorAt(t)))
      n == Len(rest)
      body == IF n >= 2 /\ rest[n] \in ErrorNumbers
                THEN TrimEnd(SubSeq(rest, 1, n - 1))
                ELSE rest
  IN Trim(body)

CoreError(errorOutput) ==
  IF ExecutionErrorAt(errorOutput) # {}
    THEN ExecutionErrorCore(errorOutput)
    ELSE errorOutput

NumRules == 11

\* ERROR_MAPPINGS[r - 1].pattern matches core
RuleMatches(r, core) ==
  CASE r = 1 -> \/ HasPhrase(core, <<"not", "authorized">>)
                \/ HasPhrase(core, <<"not", "permitted">>)
                \/ HasGap(core, <<"access">>, <<"denied">>)
    [] r = 2 -> \/ HasPhrase(core, <<"application", "isn't", "running">>)
                \/ HasPhrase(core, <<"not", "running">>)
    [] r = 3 -> \/ HasPhrase(core, <<"connection", "is", "invalid">>)
                \/ HasPhrase(core, <<"lost", "connection">>)
    [] r = 4 -> HasQuoted(core, <<"can't", "get", "note">>)
    [] r = 5 -> HasPhrase(core, <<"can't", "get", "note", "id">>)
    [] r = 6 -> HasQuoted(core, <<"can't", "get", "folder">>)
    [] r = 7 -> HasQuoted(core, <<"can't", "get", "account">>)
    [] r = 8 -> HasGap(core, <<"folder">>, <<"already", "exists">>)
    [] r = 9 -> \/ HasPhrase(core, <<"can't", "delete">>)
                \/ HasPhrase(core, <<"cannot", "delete">>)
    [] r = 10 -> \/ HasPhrase(core, <<"password", "protected">>)
                 \/ HasPhrase(core, <<"locked", "note">>)
    [] r = 11 -> \/ HasPhrase(core, <<"syntax", "error">>)
                 \/ HasPhrase(core, <<"expected">>)

\* What result.replace("$1", name) inserts for name: replace() with a string
\* pattern still interprets the replacement patterns "$$" (a "$") and "$&"
\* (the matched text, here "$1") in its second argument.
Inserted(name) ==
  [i \in 1..Len(name) |->
     CASE name[i] = "$$" -> "$"
       [] name[i] = "$&" -> "$1"
       [] OTHER -> name[i]]

\* ERROR_MAPPINGS[r - 1].message with $1 replaced by the captured name
RuleMessage(r, core) ==
  CASE r = 1 -> << "Permission", "denied", DOT,
                   "Grant automation access in System Preferences > Privacy & Security > Automation." >>
    [] r = 2 -> << "Notes.app", "is", "not", "responding", DOT,
                   "Try opening Notes.app manually." >>
    [] r = 3 -> << "Lost", "connection", "to", "Notes.app", DOT,
                   "The app may have crashed or been restarted." >>
    [] r = 4 -> << "Note", Q >> \o Inserted(QuotedCapture(core, <<"can't", "get", "note">>))
                \o << Q, "not", "found", DOT,
                      "Verify the title is exact (case-sensitive)." >>
    [] r = 5 -> << "Note", "not", "found", DOT,
                   "The note may have been deleted or the ID is invalid." >>
    [] r = 6 -> << "Folder", Q >> \o Inserted(QuotedCapture(core, <<"can't", "get", "folder">>))
                \o << Q, "not", "found", DOT,
                      "Use list-folders to see available folders." >>
    [] r = 7 -> << "Account", Q >> \o Inserted(QuotedCapture(core, <<"can't", "get", "account">>))
                \o << Q, "not", "found", DOT,
                      "Use list-accounts to see available accounts." >>
    [] r = 8 -> << "A", "folder", "with", "that", "name", "already", "exists", DOT >>
    [] r = 9 -> << "Cannot", "delete", DOT,
                   "The item may be locked or in use." >>
    [] r = 10 -> << "Note", "is", "password-protected", DOT,
                    "Unlock it in Notes.app first." >>
    [] r = 11 -> << "Internal", "error", DOT, "Please report this issue." >>

MatchingRules(core) == { r \in 1..NumRules : RuleMatches(r, core) }

\* positions where /Can't get (.+?)\./ matches (case-sensitive)
CantGetAt(t) ==
  { i \in 1..Len(t) :
      /\ PhraseAt(t, <<"Can't", "get">>, i)
      /\ \E d \in (i + 3)..Len(t) :
           /\ t[d] = DOT
           /\ \A k \in (i + 2)..(d - 1) : t[k] # NL }

CantGetCapture(t) ==
  LET i == Min(CantGetAt(t))
      d == Min({ j \in (i + 3)..Len(t) :
                   t[j] = DOT /\ \A k \in (i + 2)..(j - 1) : t[k] # NL })
  IN SubSeq(t, i + 2, d - 1)

\* variant: the last matching entry of the table is taken
FirstMatchingRule_Last(core) ==
  CHOOSE r \in MatchingRules(core) : \A q \in MatchingRules(core) : q <= r

\* the entry at which the for loop over ERROR_MAPPINGS returns
FirstMatchingRule(core) == Min(MatchingRules(core))

\* variant: the fallback text is left out
CleanedOrUnknown_NoFallback(core) == Trim(core)

\* coreError.trim() || "Unknown AppleScript error"
CleanedOrUnknown(core) ==
  IF Trim(core) # <<>> THEN Trim(core) ELSE <<"Unknown AppleScript error">>

parseErrorMessage(errorOutput) ==
  LET coreError == CoreError(errorOutput)
  IN IF MatchingRules(coreError) # {}
       THEN RuleMessage(FirstMatchingRule(coreError), coreError)
     ELSE IF CantGetAt(coreError) # {}
       THEN <<"Not found:">> \o CantGetCapture(coreError)
     ELSE CleanedOrUnknown(coreError)

\* ------------------------------------------------------------------ inputs
\* Scripts a caller passes: the empty string, a whitespace-only string and
\* a script with content, a single quote and outer whitespace.
Scripts ==
  { <<>>,
    <<SP, NL>>,
    <<SP, "get", "'", "x", NL>> }

\* Options objects a caller passes; an absent field is an absent key.
MaxRetriesChoices == 0..MaxRetriesBound
RetryDelayChoices == {100}
TimeoutChoices == {1499, 1500}

OptionsChoices ==
  LET withRetries == {<<>>} \cup { <<"maxRetries", m>> : m \in MaxRetriesChoices }
      withDelay == {<<>>} \cup { <<"retryDelayMs", d>> : d \in RetryDelayChoices }
      withTimeout == {<<>>} \cup { <<"timeoutMs", t>> : t \in TimeoutChoices }
      Field(f) == IF f = <<>> THEN <<>> ELSE (f[1] :> f[2])
  IN { Field(r) @@ Field(d) @@ Field(t) :
         r \in withRetries, d \in withDelay, t \in withTimeout }

\* Names that can stand between the quotes of a "Can't get note" error.
Names == { <<"Missing">>, <<"Busy">> }

Err(text) == [type |-> "Error", killed |-> FALSE, signal |-> "none", message |-> text]

\* Values execSync can throw.
ThrownValues ==
  { Err(<<"Notes.app", "is", "not", "responding">>),
    Err(<<"connection", "is", "invalid">>),
    Err(<<"not", "authorized", "to", "send", "events">>),
    Err(<<"36:50:", EXEC_MARKER, "Not", "authorized", "to", "send", "Apple events",
          "to", "Notes", DOT, SP, "(-1743)">>),
    Err(<<"36:50:", EXEC_MARKER, "Application", "isn't", "running", DOT, SP, "(-600)">>),
    Err(<<"Command failed:", "osascript -e '", "busy", "'", NL,
          "36:50:", EXEC_MARKER, "Notes got an error:", "Can't", "get", "note", "id",
          Q, "x", Q, DOT, SP, "(-1728)">>),
    Err(<<>>),
    [type |-> "Error", killed |-> TRUE, signal |-> "SIGTERM",
     message |-> <<"Command failed: SIGTERM">>],
    [type |-> "Error", killed |-> FALSE, signal |-> "SIGTERM",
     message |-> <<"not", "authorized">>],
    [type |-> "string", killed |-> FALSE, signal |-> "none",
     message |-> <<"string error">>],
    [type |-> "object", killed |-> FALSE, signal |-> "none", message |-> <<>>] }
  \cup { Err(<<"Can't", "get", "note", Q>> \o n \o <<Q>>) : n \in Names }
  \cup { Err(<<EXEC_MARKER, "Notes got an error:", "Can't", "get", "note", Q>>
             \o n \o <<Q, DOT, SP, "(-1728)">>) : n \in {<<"Missing">>} }

\* Values execSync can return (stdout, utf8).
StdoutValues == { <<"success">>, <<SP, SP, "Note Title", SP, SP, NL>>, <<>> }

\* ------------------------------------------------------------------- state
VARIABLES
  pc,            \* "idle", "loop" (about to call execSync), "running"
                 \* (execSync blocked on the child), "sleeping", "returned"
  script,        \* argument of the current call
  options,       \* argument of the current call
  timeoutMs,     \* options.timeoutMs ?? DEFAULT_TIMEOUT_MS
  maxRetries,    \* options.maxRetries ?? DEFAULT_MAX_RETRIES
  retryDelayMs,  \* options.retryDelayMs ?? DEFAULT_RETRY_DELAY_MS
  command,       \* the osascript command line
  attempt,       \* loop counter
  lastError,     \* AppleScriptResult | null
  result,        \* value returned by the call (meaningful when pc = "returned")
  execCalls,     \* execSync invocations made during the current call
  sleeps,        \* arguments of the sleep calls made during the current call
  attempts,      \* per attempt of the current call: what execSync did and
                 \* what the catch block made of it
  children,      \* osascript child processes started by execSync and still alive
  stderr,        \* lines the current call has written to stderr, in order
  env,           \* process.env: the DEBUG and VERBOSE entries
  startDebug,    \* isDebugEnabled() as it was when the process started
  previous       \* what the call before the current one did (Null: no such call)

\* State of the sync monitor (syncDetection) and of one bracket call.
VARIABLES
  now,               \* Date.now()
  cachedSyncStatus,  \* SyncStatus | null
  cacheTimestamp,    \* time of the probe that filled the cache, 0 when empty
  lastCall,          \* the last getSyncStatus / clearSyncStatusCache call made
  bpc,               \* position of the bracket call: "idle", "op", "delay",
                     \* "after", "done", "threw"
  basync,            \* TRUE for withSyncAwareness, FALSE for withSyncAwarenessSync
  syncBefore,        \* the bracket's before snapshot
  opResult,          \* what fn() returned
  bevents,           \* what the bracket call has done so far, in order
  bresult            \* the SyncAwareResult returned by the bracket call

\* One application of the error classifier and of the shell escape.
VARIABLES
  ctext,   \* the error text given to parseErrorMessage
  cout,    \* what parseErrorMessage returned for it (Null before the call)
  craw,    \* the script given to escapeForShell
  cesc     \* what escapeForShell returned for it (Null before the call)

\* Notes.app's store and one call of a notes manager operation.
VARIABLES
  notes,    \* the notes Notes.app holds: number -> [folder, body, locked]
  nfresh,   \* number Notes.app gives to the next note it creates
  npc,      \* "idle" or "done"
  nop,      \* the operation called and its arguments
  nret,     \* what the operation returned
  nlog,     \* the executeAppleScript calls of the operation, in order
  nbefore   \* the store when the operation was called

\* One probe of getSyncStatus taken by itself.
VARIABLES
  pin,     \* what the probe finds: database, WAL file, query outcome
  pout     \* the status the probe built for it (Null before the probe)

\* Two withSyncAwareness calls that may be in flight at once.
VARIABLES
  wcalls,  \* per call: its position and its locals
  wlog     \* the reads of getSyncStatus and the results of fn, in order

execVars == << pc, script, options, timeoutMs, maxRetries, retryDelayMs, command,
               attempt, lastError, result, execCalls, sleeps, attempts, children,
               stderr, env, startDebug, previous >>

syncVars == << now, cachedSyncStatus, cacheTimestamp, lastCall, bpc, basync,
               syncBefore, opResult, bevents, bresult >>

classifyVars == << ctext, cout, craw, cesc >>

notesVars == << notes, nfresh, npc, nop, nret, nlog, nbefore >>

probeVars == << pin, pout >>

overlapVars == << wcalls, wlog >>

vars == << execVars, syncVars, classifyVars, notesVars, probeVars, overlapVars >>

\* what the executeAppleScript actions leave alone
nonExecVars == << syncVars, classifyVars, notesVars, probeVars, overlapVars >>

\* what the sync monitor actions leave alone
nonSyncVars == << execVars, classifyVars, notesVars, probeVars, overlapVars >>

\* what the classifier and escape actions leave alone
nonClassifyVars == << execVars, syncVars, notesVars, probeVars, overlapVars >>

\* what the notes manager actions leave alone
nonNotesVars == << execVars, syncVars, classifyVars, probeVars, overlapVars >>

\* what the single probe leaves alone
nonProbeVars == << execVars, syncVars, classifyVars, notesVars, overlapVars >>

\* what the overlapping calls leave alone, the sync monitor's state aside
nonOverlapVars == << execVars, classifyVars, notesVars, probeVars >>

Null == [isNull |-> TRUE]

\* ------------------------------------------------- sync monitor constants
RECENT_ACTIVITY_THRESHOLD_SECONDS == 5
VERIFICATION_DELAY_MS == 500
SYNC_STATUS_CACHE_TTL_MS == 2000

\* Date.now() when the model starts: far from the epoch, as on any real host
StartNow == 5 * SYNC_STATUS_CACHE_TTL_MS

NoCall == [op |-> "none"]

\* module load: let cachedSyncStatus = null; let cacheTimestamp = 0
SyncInit ==
  /\ now = StartNow
  /\ cachedSyncStatus = Null
  /\ cacheTimestamp = 0
  /\ lastCall = NoCall
  /\ bpc = "idle"
  /\ basync = FALSE
  /\ syncBefore = Null
  /\ opResult = Null
  /\ bevents = <<>>
  /\ bresult = Null

\* options.f ?? d
OrDefault(o, f, d) == IF f \in DOMAIN o THEN o[f] ELSE d

\* variant: the whitespace-only test (!script.trim()) is left out
IsEmptyScript_NoTrim(s) == s = <<>>

\* !script || !script.trim()
IsEmptyScript(s) == s = <<>> \/ Trim(s) = <<>>

EmptyScriptResult ==
  [success |-> FALSE, output |-> <<>>,
   error |-> <<"Cannot execute empty AppleScript">>]

BuildCommand(s) == <<"osascript -e '">> \o escapeForShell(Trim(s)) \o <<"'">>

\* variant: stdout is returned without trimming
SuccessResult_Untrimmed(output) == [success |-> TRUE, output |-> output]

\* return { success: true, output: output.trim() }
SuccessResult(output) == [success |-> TRUE, output |-> Trim(output)]

\* lastError = { success: false, output: "", error: errorMessage }
FailureResult(errorMessage) ==
  [success |-> FALSE, output |-> <<>>, error |-> errorMessage]

\* variant: attempt < maxRetries as the loop condition
LoopCondition_Strict(a, max) == a < max

\* for (...; attempt <= maxRetries; ...)
LoopCondition(a, max) == a <= max

\* variant: one attempt short
HasAttemptsLeft_OneShort(a, max) == a < max - 1

\* variant: the comparison reversed
HasAttemptsLeft_Reversed(a, max) == a > max

\* variant: the final allowed attempt counts as having attempts left
HasAttemptsLeft_Inclusive(a, max) == a <= max

\* const hasAttemptsLeft = attempt < maxRetries
HasAttemptsLeft(a, max) == a < max

RECURSIVE Pow2(_)
Pow2(n) == IF n <= 0 THEN 1 ELSE 2 * Pow2(n - 1)

\* variant: linear instead of exponential backoff
BackoffDelay_Linear(delay, a) == delay * a

\* retryDelayMs * Math.pow(2, attempt - 1)
BackoffDelay(delay, a) == delay * Pow2(a - 1)

\* the errorMessage chosen by the catch block
ErrorMessageOf(error, timeout) ==
  IF isTimeoutError(error) THEN TimeoutMessage(timeout)
  ELSE IF error.type = "Error" THEN parseErrorMessage(error.message)
  ELSE IF error.type = "string" THEN parseErrorMessage(error.message)
  ELSE <<"AppleScript execution failed with unknown error">>

\* variant: the patterns are tested on the text execSync threw
CanRetry_Raw(error, errorMessage) ==
  isTimeoutError(error) \/ isRetryableError(error.message)

\* const canRetry = isTimeout || isRetryableError(errorMessage)
CanRetry(error, errorMessage) ==
  isTimeoutError(error) \/ isRetryableError(errorMessage)

\* let attempt = 1: the counter of a call starts at 1 whatever the counter
\* of the call before it was left at
\* variant: the counter goes on from where the call before left it
InitialAttempt_Continued(leftover) == leftover + 1

InitialAttempt(leftover) == 1

\* ------------------------------------------------------------------ logging
\* process.env with neither DEBUG nor VERBOSE set
EnvUnset == [DEBUG |-> "unset", VERBOSE |-> "unset"]

\* debug === "1" || debug === "true" || verbose === "1" || verbose === "true"
isDebugEnabled(e) ==
  e.DEBUG = "1" \/ e.DEBUG = "true" \/ e.VERBOSE = "1" \/ e.VERBOSE = "true"

\* variant: the line is written whatever the flags say
debugLog_Ungated(e, message, a) == << [kind |-> "debug", head |-> message, attempt |-> a] >>

\* debugLog(message, data): what it writes to stderr; a is data.attempt
debugLog(e, message, a) ==
  IF ~isDebugEnabled(e) THEN <<>>
  ELSE << [kind |-> "debug", head |-> message, attempt |-> a] >>

\* console.error(`AppleScript retry: Attempt ${attempt}/${maxRetries} failed
\* with "${errorMessage}". Retrying in ${delayMs}ms...`)
RetryNotice(a, max, errorMessage, delayMs) ==
  [kind |-> "console", head |-> "AppleScript retry:", attempt |-> a, of |-> max,
   message |-> errorMessage, delay |-> delayMs]

\* console.error(`AppleScript timeout: ...`) or (`AppleScript error: ...`)
FinalNotice(isTimeout, errorMessage) ==
  [kind |-> "console",
   head |-> IF isTimeout THEN "AppleScript timeout:" ELSE "AppleScript error:",
   message |-> errorMessage]

\* execSync spawns the child
ChildSpawned(n) == n + 1

\* variant: the call comes back while the child is still alive
ChildExited_Detached(n) == n

\* execSync returns or throws only after the child has exited, or has been
\* killed when the timeout expired
ChildExited(n) == n - 1

ExecLocalsInit ==
  /\ pc = "idle"
  /\ script = <<>>
  /\ options = <<>>
  /\ timeoutMs = DEFAULT_TIMEOUT_MS
  /\ maxRetries = DEFAULT_MAX_RETRIES
  /\ retryDelayMs = DEFAULT_RETRY_DELAY_MS
  /\ command = <<>>
  /\ attempt = 0
  /\ lastError = Null
  /\ result = Null
  /\ execCalls = 0
  /\ sleeps = <<>>
  /\ attempts = <<>>
  /\ children = 0
  /\ stderr = <<>>
  /\ previous = Null

\* a process started with neither DEBUG nor VERBOSE set, before any call
ExecInit ==
  /\ ExecLocalsInit
  /\ env = EnvUnset
  /\ startDebug = isDebugEnabled(EnvUnset)

\* no classifier or escape call is in progress
ClassifyIdle ==
  /\ ctext = <<>>
  /\ cout = Null
  /\ craw = <<>>
  /\ cesc = Null

\* ------------------------------------------------------- Notes.app store
\* html of a note body whose first line is title
BodyOf(title) == <<"<div>">> \o title \o <<"</div>">>

\* three notes: a plain one, one with a comma in its title and a double
\* quote in its body, and a password-protected one
InitialNotes ==
  (1 :> [folder |-> <<"Notes">>, body |-> BodyOf(<<"Memo">>), locked |-> FALSE])
  @@ (2 :> [folder |-> <<"Notes">>,
            body |-> BodyOf(<<"Eggs", ",", "Milk">>) \o <<Q, "x", Q>>,
            locked |-> FALSE])
  @@ (3 :> [folder |-> <<"Notes">>, body |-> BodyOf(<<"Secret">>), locked |-> TRUE])

\* the number of the first note created after the initial ones
FirstFresh == Cardinality(DOMAIN InitialNotes) + 1

NotesInit ==
  /\ notes = InitialNotes
  /\ nfresh = FirstFresh
  /\ npc = "idle"
  /\ nop = Null
  /\ nret = Null
  /\ nlog = <<>>
  /\ nbefore = InitialNotes

\* no probe is being looked at by itself
ProbeIdle ==
  /\ pin = [db |-> FALSE, wal |-> "none", ageMs |-> 0, query |-> "none", out |-> <<>>]
  /\ pout = Null

\* no withSyncAwareness call has been made
Callers == {1, 2}

OverlapIdle ==
  /\ wcalls = [c \in Callers |-> [pc |-> "idle"]]
  /\ wlog = <<>>

Init == ExecInit /\ SyncInit /\ ClassifyIdle /\ NotesInit /\ ProbeIdle /\ OverlapIdle

\* executeAppleScript(s, o) from its entry to the first execSync call or to
\* an early return
Begin(s, o) ==
  /\ UNCHANGED nonExecVars
  /\ script' = s
  /\ options' = o
  /\ timeoutMs' = OrDefault(o, "timeoutMs", DEFAULT_TIMEOUT_MS)
  /\ maxRetries' = OrDefault(o, "maxRetries", DEFAULT_MAX_RETRIES)
  /\ retryDelayMs' = OrDefault(o, "retryDelayMs", DEFAULT_RETRY_DELAY_MS)
  /\ execCalls' = 0
  /\ sleeps' = <<>>
  /\ attempts' = <<>>
  /\ UNCHANGED << children, env, startDebug >>
  /\ IF IsEmptyScript(s)
       THEN /\ pc' = "returned"
            /\ result' = EmptyScriptResult
            /\ command' = <<>>
            /\ attempt' = 0
            /\ lastError' = Null
            /\ stderr' = <<>>
       ELSE /\ command' = BuildCommand(s)
            /\ stderr' = debugLog(env, "Executing AppleScript", 0)
            /\ lastError' = Null
            /\ attempt' = InitialAttempt(attempt)
            /\ IF LoopCondition(attempt', maxRetries')
                 THEN pc' = "loop" /\ result' = Null
                 ELSE pc' = "returned" /\ result' = Null

\* a call made when no call has been made or the last one was discarded
Call(s, o) ==
  /\ pc = "idle"
  /\ Begin(s, o)
  /\ UNCHANGED previous

\* the caller calls again, right after a call returned
CallAgain(s, o) ==
  /\ pc = "returned"
  /\ previous' = [attempts |-> Len(attempts), result |-> result]
  /\ Begin(s, o)

\* some code of the process assigns process.env.DEBUG / VERBOSE; the call
\* is synchronous, so this happens between calls only
SetEnv(e) ==
  /\ pc \in {"idle", "returned"}
  /\ env' = e
  /\ UNCHANGED << pc, script, options, timeoutMs, maxRetries, retryDelayMs, command,
                  attempt, lastError, result, execCalls, sleeps, attempts, children,
                  stderr, startDebug, previous >>
  /\ UNCHANGED nonExecVars

\* execSync(command, {timeout: timeoutMs, ...}) starts the child and blocks
ExecSync ==
  /\ pc = "loop"
  /\ UNCHANGED nonExecVars
  /\ pc' = "running"
  /\ execCalls' = execCalls + 1
  /\ children' = ChildSpawned(children)
  /\ UNCHANGED << script, options, timeoutMs, maxRetries, retryDelayMs, command,
                  attempt, lastError, result, sleeps, attempts,
                  stderr, env, startDebug, previous >>

\* execSync returns the child's stdout: the call returns success
ExecReturns(output) ==
  /\ pc = "running"
  /\ UNCHANGED nonExecVars
  /\ attempts' = Append(attempts, [ok |-> TRUE, stdout |-> output])
  /\ result' = SuccessResult(output)
  /\ pc' = "returned"
  /\ children' = ChildExited(children)
  /\ stderr' = stderr \o debugLog(env, "AppleScript succeeded", attempt)
  /\ UNCHANGED << script, options, timeoutMs, maxRetries, retryDelayMs, command,
                  attempt, lastError, execCalls, sleeps, env, startDebug, previous >>

\* execSync throws: the catch block, up to the sleep call or the return
ExecThrows(error) ==
  /\ pc = "running"
  /\ UNCHANGED nonExecVars
  /\ LET errorMessage == ErrorMessageOf(error, timeoutMs)
         canRetry == CanRetry(error, errorMessage)
     IN /\ attempts' = Append(attempts,
                         [ok |-> FALSE, thrown |-> error,
                          isTimeout |-> isTimeoutError(error),
                          errorMessage |-> errorMessage, canRetry |-> canRetry])
        /\ lastError' = FailureResult(errorMessage)
        /\ IF canRetry /\ HasAttemptsLeft(attempt, maxRetries)
             THEN /\ sleeps' = Append(sleeps, BackoffDelay(retryDelayMs, attempt))
                  /\ stderr' = stderr \o debugLog(env, "AppleScript failed", attempt)
                                 \o << RetryNotice(attempt, maxRetries, errorMessage,
                                                   BackoffDelay(retryDelayMs, attempt)) >>
                  /\ pc' = "sleeping"
                  /\ UNCHANGED result
             ELSE /\ result' = lastError'
                  /\ stderr' = stderr \o debugLog(env, "AppleScript failed", attempt)
                                 \o << FinalNotice(isTimeoutError(error), errorMessage) >>
                  /\ pc' = "returned"
                  /\ UNCHANGED sleeps
  /\ children' = ChildExited(children)
  /\ UNCHANGED << script, options, timeoutMs, maxRetries, retryDelayMs, command,
                  attempt, execCalls, env, startDebug, previous >>

\* sleep returns: attempt++ and the loop condition
SleepReturns ==
  /\ pc = "sleeping"
  /\ UNCHANGED nonExecVars
  /\ attempt' = attempt + 1
  /\ IF LoopCondition(attempt + 1, maxRetries)
       THEN pc' = "loop" /\ UNCHANGED result
       ELSE pc' = "returned" /\ result' = lastError
  /\ UNCHANGED << script, options, timeoutMs, maxRetries, retryDelayMs, command,
                  lastError, execCalls, sleeps, attempts, children,
                  stderr, env, startDebug, previous >>

\* the caller has taken the returned value: nothing of the call survives
\* (the function keeps no state between invocations)
Discard ==
  /\ pc = "returned"
  /\ UNCHANGED nonExecVars
  /\ pc' = "idle"
  /\ script' = <<>>
  /\ options' = <<>>
  /\ timeoutMs' = DEFAULT_TIMEOUT_MS
  /\ maxRetries' = DEFAULT_MAX_RETRIES
  /\ retryDelayMs' = DEFAULT_RETRY_DELAY_MS
  /\ command' = <<>>
  /\ attempt' = 0
  /\ lastError' = Null
  /\ result' = Null
  /\ execCalls' = 0
  /\ sleeps' = <<>>
  /\ attempts' = <<>>
  /\ stderr' = <<>>
  /\ UNCHANGED << children, env, startDebug, previous >>

Next ==
  \/ \E s \in Scripts : \E o \in OptionsChoices : Call(s, o)
  \/ ExecSync
  \/ \E output \in StdoutValues : ExecReturns(output)
  \/ \E error \in ThrownValues : ExecThrows(error)
  \/ SleepReturns
  \/ Discard

Spec == Init /\ [][Next]_vars

\* ------------------------------------------------- calls one after another
\* The process makes call after call, and its code may assign the DEBUG and
\* VERBOSE entries of process.env between them.
EnvChoices ==
  { EnvUnset,
    [DEBUG |-> "1", VERBOSE |-> "unset"],
    [DEBUG |-> "0", VERBOSE |-> "true"],
    [DEBUG |-> "yes", VERBOSE |-> "unset"] }

CallsScripts == { s \in Scripts : s # <<>> }

CallsOptions ==
  { o \in OptionsChoices :
      /\ DOMAIN o \subseteq {"maxRetries"}
      /\ "maxRetries" \in DOMAIN o => o["maxRetries"] \in {0, 2, 3} }

CallsThrown ==
  { e \in ThrownValues :
      \/ e.killed
      \/ e.message = <<"Notes.app", "is", "not", "responding">>
      \/ e.message = <<"not", "authorized", "to", "send", "events">> }

CallsStdout == { <<"success">> }

CallsInit ==
  /\ ExecLocalsInit
  /\ env \in EnvChoices
  /\ startDebug = isDebugEnabled(env)
  /\ SyncInit /\ ClassifyIdle /\ NotesInit /\ ProbeIdle /\ OverlapIdle

CallsNext ==
  \/ \E s \in CallsScripts : \E o \in CallsOptions : Call(s, o)
  \/ \E s \in CallsScripts : \E o \in CallsOptions : CallAgain(s, o)
  \/ \E e \in EnvChoices : SetEnv(e)
  \/ ExecSync
  \/ \E output \in CallsStdout : ExecReturns(output)
  \/ \E error \in CallsThrown : ExecThrows(error)
  \/ SleepReturns

CallsSpec == CallsInit /\ [][CallsNext]_vars

\* ------------------------------------------------------------- properties
Returned == pc = "returned"
NumAttempts == Len(attempts)
LastAttempt == attempts[Len(attempts)]

\* every character of the script is whitespace (the empty script included)
OnlyWhitespace(s) == \A i \in 1..Len(s) : s[i] \in {SP, NL}

\* The error kind of a thrown value: the timeout check first, then the
\* category of the first ERROR_MAPPINGS entry that matches, then the
\* "Can't get X." fallback, then the transient vocabulary of the raw text.
ErrorKind(error) ==
  IF error.type = "Error" /\ (error.killed \/ error.signal = "SIGTERM")
    THEN "Timeout"
  ELSE IF error.type = "object" THEN "Unknown"
  ELSE LET core == CoreError(error.message)
           rules == MatchingRules(core)
           r == Min(rules)
       IN IF rules # {}
            THEN CASE r = 1 -> "Permission"
                   [] r = 2 -> "TransientBusy"
                   [] r = 3 -> "ConnectionLost"
                   [] r \in 4..7 -> "NotFound"
                   [] r = 8 -> "AlreadyExists"
                   [] r \in 9..10 -> "Locked"
                   [] r = 11 -> "Syntax"
          ELSE IF CantGetAt(core) # {} THEN "NotFound"
          ELSE IF HasPhrase(core, <<"timed", "out">>) THEN "Timeout"
          ELSE IF HasPhrase(core, <<"not", "responding">>) \/ HasPhrase(core, <<"busy">>)
            THEN "TransientBusy"
          ELSE IF HasPhrase(core, <<"lost", "connection">>)
                  \/ HasGap(core, <<"connection">>, <<"invalid">>)
            THEN "ConnectionLost"
          ELSE "Unknown"

RetryableKinds == {"Timeout", "TransientBusy", "ConnectionLost"}

\* C1: a call with a non-empty script and maxRetries >= 1 never makes more
\* than maxRetries subprocess invocations, and has made at least one when it
\* returns.
C1_AttemptsWithinBounds ==
  (pc # "idle" /\ ~OnlyWhitespace(script) /\ maxRetries >= 1) =>
    /\ execCalls <= maxRetries
    /\ Returned => execCalls >= 1

C1_Witness ==
  /\ Returned
  /\ maxRetries = 3
  /\ execCalls = 2
  /\ ~attempts[1].ok /\ attempts[1].isTimeout
  /\ ~attempts[2].ok /\ ~attempts[2].canRetry

\* C2: the first success ends the call: it is attempt N <= maxRetries, every
\* attempt before it failed with a retryable error, the subprocess was invoked
\* exactly N times and the call returns the output of attempt N; and a call
\* never gives up on a retryable failure while attempts remain, so a success
\* on attempt N <= maxRetries is always reached.
C2_SuccessAfterRetries ==
  /\ \A i \in 1..NumAttempts :
       attempts[i].ok =>
         /\ i = NumAttempts
         /\ i <= maxRetries
         /\ Returned
         /\ execCalls = i
         /\ \A k \in 1..(i - 1) : ~attempts[k].ok /\ attempts[k].canRetry
         /\ result.success
         /\ result.output = Trim(attempts[i].stdout)
  /\ (Returned /\ NumAttempts >= 1 /\ ~LastAttempt.ok /\ LastAttempt.canRetry) =>
       NumAttempts >= maxRetries

C2_Witness ==
  /\ Returned
  /\ maxRetries = 4
  /\ NumAttempts = 3
  /\ attempts[3].ok
  /\ result = [success |-> TRUE, output |-> <<"success">>]
  /\ execCalls = 3

\* C3: a failure of a non-retryable kind (a note-not-found error, whatever
\* the note's name) ends the call after exactly one subprocess invocation,
\* whatever maxRetries is, and that failure is returned.
C3_NonRetryableOnce ==
  (NumAttempts >= 1 /\ ~attempts[1].ok
     /\ ErrorKind(attempts[1].thrown) \notin RetryableKinds) =>
    /\ execCalls = 1
    /\ Returned
    /\ result = FailureResult(attempts[1].errorMessage)

\* C4: when every attempt fails with a retryable error, the call returns
\* after exactly maxRetries subprocess invocations, with success = false and
\* the error of the last of them.
C4_RetriesExhausted ==
  (Returned /\ maxRetries >= 1 /\ NumAttempts >= 1
     /\ \A i \in 1..NumAttempts : ~attempts[i].ok /\ attempts[i].canRetry) =>
    /\ execCalls = maxRetries
    /\ NumAttempts = maxRetries
    /\ result = [success |-> FALSE, output |-> <<>>,
                 error |-> attempts[maxRetries].errorMessage]

C4_Witness ==
  /\ Returned
  /\ maxRetries = 3
  /\ execCalls = 3
  /\ \A i \in 1..3 : ~attempts[i].ok /\ attempts[i].canRetry
  /\ attempts[1].errorMessage # attempts[3].errorMessage
  /\ ~result.success

\* C5: the value a call returns after at least one attempt is the outcome of
\* the last attempt: its trimmed stdout on success, its error message on
\* failure.
C5_LastOutcomeReturned ==
  (Returned /\ NumAttempts >= 1) =>
    IF LastAttempt.ok
      THEN /\ result.success
           /\ result.output = Trim(LastAttempt.stdout)
           /\ "error" \notin DOMAIN result
      ELSE /\ ~result.success
           /\ result.error = LastAttempt.errorMessage

C5_Witness ==
  /\ Returned
  /\ NumAttempts = 2
  /\ ~attempts[1].ok
  /\ LastAttempt.ok
  /\ LastAttempt.stdout = <<SP, SP, "Note Title", SP, SP, NL>>
  /\ result.output = <<"Note Title">>

\* C6: the k-th backoff sleep of a call lasts retryDelayMs * 2^(k-1) ms: the
\* first lasts retryDelayMs, each later one twice the one before, and the
\* k-th follows failed attempt k (k <= maxRetries - 1).
C6_ExponentialBackoff ==
  /\ Len(sleeps) >= 1 => sleeps[1] = retryDelayMs
  /\ \A k \in 1..(Len(sleeps) - 1) : sleeps[k + 1] = 2 * sleeps[k]
  /\ \A k \in 1..Len(sleeps) :
       /\ k <= maxRetries - 1
       /\ k <= NumAttempts
       /\ ~attempts[k].ok

C6_Witness ==
  /\ retryDelayMs = 100
  /\ NumAttempts = 4
  /\ LastAttempt.ok
  /\ sleeps = <<100, 200, 400>>

\* C7: a call with an empty or whitespace-only script returns the dedicated
\* failure and has spawned no subprocess and slept never, whatever the
\* options are.
C7_EmptyScriptRejected ==
  (pc # "idle" /\ OnlyWhitespace(script)) =>
    /\ Returned
    /\ result = [success |-> FALSE, output |-> <<>>,
                 error |-> <<"Cannot execute empty AppleScript">>]
    /\ execCalls = 0
    /\ sleeps = <<>>
    /\ attempts = <<>>

C7_Witness ==
  /\ Returned
  /\ script = <<SP, NL>>
  /\ "maxRetries" \in DOMAIN options /\ options.maxRetries = 4
  /\ result.error = <<"Cannot execute empty AppleScript">>
  /\ execCalls = 0

\* C8: an attempt ended by the timeout (an Error with killed = true or signal
\* SIGTERM) gets the message "Operation timed out after S seconds..." with S
\* the nearest integer to timeoutMs / 1000, whatever the error's own text
\* says, and it is retried whenever attempts remain.
C8_TimeoutMessageAndRetry ==
  \A i \in 1..NumAttempts :
    (~attempts[i].ok /\ attempts[i].thrown.type = "Error"
       /\ (attempts[i].thrown.killed \/ attempts[i].thrown.signal = "SIGTERM")) =>
      /\ \E S \in 0..100 :
           /\ 2 * timeoutMs - 1000 < 2000 * S
           /\ 2000 * S <= 2 * timeoutMs + 1000
           /\ attempts[i].errorMessage =
                << "Operation", "timed", "out", "after", ToString(S), "seconds", DOT,
                   "Notes.app may be unresponsive or the operation involves too many notes." >>
      /\ attempts[i].canRetry
      /\ (i < maxRetries) => (Len(sleeps) >= i)

C8_Witness ==
  /\ timeoutMs = 1500
  /\ maxRetries = 3
  /\ NumAttempts = 2
  /\ attempts[1].thrown.signal = "SIGTERM"
  /\ ~attempts[1].thrown.killed
  /\ attempts[1].thrown.message = <<"not", "authorized">>
  /\ attempts[1].errorMessage[5] = "2"
  /\ Len(sleeps) = 1

\* C9: whether a failed attempt is retried is decided by its error kind
\* alone: Timeout, TransientBusy and ConnectionLost failures are retryable,
\* failures of every other kind are not.
C9_RetryableByKind ==
  \A i \in 1..NumAttempts :
    ~attempts[i].ok =>
      (attempts[i].canRetry <=> ErrorKind(attempts[i].thrown) \in RetryableKinds)

\* C10: whatever the script, the options and the thrown value are, a call
\* returns a well-formed outcome: success with no error field, or failure
\* with empty output and a non-empty error string.
C10_WellFormedOutcome ==
  Returned =>
    \/ /\ DOMAIN result = {"success", "output"}
       /\ result.success
    \/ /\ DOMAIN result = {"success", "output", "error"}
       /\ ~result.success
       /\ result.output = <<>>
       /\ result.error # <<>>

\* C11: a call whose options give no maxRetries makes exactly one attempt
\* and never sleeps, also when that attempt fails with a retryable error.
C11_DefaultSingleAttempt ==
  (pc # "idle" /\ "maxRetries" \notin DOMAIN options /\ ~OnlyWhitespace(script)) =>
    /\ maxRetries = 1
    /\ execCalls <= 1
    /\ sleeps = <<>>
    /\ Returned => (execCalls = 1 /\ NumAttempts = 1)
    /\ NumAttempts = 1 => Returned

C11_Witness ==
  /\ Returned
  /\ "maxRetries" \notin DOMAIN options
  /\ NumAttempts = 1
  /\ ~attempts[1].ok
  /\ attempts[1].canRetry
  /\ attempts[1].thrown.message = <<"Notes.app", "is", "not", "responding">>
  /\ execCalls = 1
  /\ sleeps = <<>>

\* ============================================================ sync monitor
\* Model of syncDetection (getSyncStatus, clearSyncStatusCache,
\* withSyncAwareness, withSyncAwarenessSync).

\* ------------------------------------------------------------------ bounds
\* The clock advances in steps of ClockStepMs, at most this many times.
MaxElapsedTicks == 4

ClockStepMs == VERIFICATION_DELAY_MS
MaxNow == StartNow + MaxElapsedTicks * ClockStepMs

\* secondsSinceLastChange: Infinity
INFINITY == 999999999

\* ---------------------------------------------------------------- parseInt
DigitChars == <<"0", "1", "2", "3", "4", "5", "6", "7", "8", "9">>
IsDigit(c) == \E i \in 1..10 : DigitChars[i] = c
DigitVal(c) == (CHOOSE i \in 1..10 : DigitChars[i] = c) - 1

RECURSIVE ParseDigits(_, _)
ParseDigits(t, acc) ==
  IF t = <<>> \/ ~IsDigit(Head(t)) THEN acc
  ELSE ParseDigits(Tail(t), acc * 10 + DigitVal(Head(t)))

\* parseInt(t, 10) on a string given as its characters
ParseInt(t) ==
  LET signed == t # <<>> /\ Head(t) \in {"-", "+"}
      body == IF signed THEN Tail(t) ELSE t
  IN IF body = <<>> \/ ~IsDigit(Head(body))
       THEN [nan |-> TRUE, value |-> 0]
       ELSE [nan |-> FALSE,
             value |-> (IF signed /\ Head(t) = "-" THEN -1 ELSE 1) * ParseDigits(body, 0)]

\* parseInt(result.trim(), 10) || 0
ParseIntOrZero(t) == IF ParseInt(Trim(t)).nan THEN 0 ELSE ParseInt(Trim(t)).value

\* ------------------------------------------------------------------ inputs
\* Age of the WAL file at the probe, Date.now() - walStats.mtimeMs.
WalAgesMs == {400, 4600, 5000}

WalStates ==
  {[wal |-> "missing", ageMs |-> 0]}
  \cup {[wal |-> "present", ageMs |-> a] : a \in WalAgesMs}

\* What sqlite3 prints.
QueryOutputs == { <<"0", NL>>, <<"2", NL>>, <<"x">> }

QueryOutcomes ==
  {[query |-> "ok", out |-> o] : o \in QueryOutputs}
  \cup {[query |-> "throwsError", out |-> <<"database is locked">>],
        [query |-> "throwsOther", out |-> <<>>]}

\* What one probe finds: the database missing, statSync throwing, or a WAL
\* state with a query outcome.
ProbeInputs ==
  {[db |-> FALSE, wal |-> "missing", ageMs |-> 0, query |-> "ok", out |-> <<>>],
   [db |-> TRUE, wal |-> "throws", ageMs |-> 0, query |-> "ok", out |-> <<>>]}
  \cup {[db |-> TRUE, wal |-> w.wal, ageMs |-> w.ageMs, query |-> q.query, out |-> q.out] :
          w \in WalStates, q \in QueryOutcomes}

NoInput == [db |-> FALSE, wal |-> "none", ageMs |-> 0, query |-> "none", out |-> <<>>]

\* Time a probe takes (the sqlite3 query blocks).
ProbeDurationsMs == {0, ClockStepMs}

\* Values fn() returns.
OpValues == {"success", "data"}

\* ------------------------------------------------------------- the probe
WithField(st, f, v) == [x \in DOMAIN st \cup {f} |-> IF x = f THEN v ELSE st[x]]

BaseStatus ==
  [syncDetected |-> FALSE, pendingUpload |-> 0,
   secondsSinceLastChange |-> INFINITY, recentActivity |-> FALSE]

\* Math.round(secondsAgo)
RoundSeconds(ageMs) == (ageMs + 500) \div 1000

\* variant: the threshold is applied to the rounded seconds
RecentActivity_Rounded(ageMs) ==
  RoundSeconds(ageMs) < RECENT_ACTIVITY_THRESHOLD_SECONDS

\* secondsAgo < RECENT_ACTIVITY_THRESHOLD_SECONDS
RecentActivity(ageMs) == ageMs < RECENT_ACTIVITY_THRESHOLD_SECONDS * 1000

\* the status after the WAL check
AfterWal(in) ==
  IF in.wal = "present"
    THEN [BaseStatus EXCEPT !.secondsSinceLastChange = RoundSeconds(in.ageMs),
                            !.recentActivity = RecentActivity(in.ageMs)]
    ELSE BaseStatus

\* variant: only the pending uploads are named
WarningText_PendingOnly(st) ==
  <<"iCloud sync in progress:">>
  \o (IF st.pendingUpload > 0
        THEN <<ToString(st.pendingUpload), "item(s) pending upload">> ELSE <<>>)
  \o <<DOT, "Results may be incomplete or change shortly.">>

\* reasons.join(", ") between the fixed parts of the warning
WarningText(st) ==
  <<"iCloud sync in progress:">>
  \o (IF st.pendingUpload > 0
        THEN <<ToString(st.pendingUpload), "item(s) pending upload">> ELSE <<>>)
  \o (IF st.pendingUpload > 0 /\ st.recentActivity THEN <<",">> ELSE <<>>)
  \o (IF st.recentActivity
        THEN <<"database modified", ToString(st.secondsSinceLastChange), "s ago">>
        ELSE <<>>)
  \o <<DOT, "Results may be incomplete or change shortly.">>

\* the status after a query that printed out
AfterQuery(st, out) ==
  LET pending == ParseIntOrZero(out)
      detected == pending > 0 \/ st.recentActivity
      counted == [st EXCEPT !.pendingUpload = pending, !.syncDetected = detected]
  IN IF detected THEN WithField(counted, "warning", WarningText(counted)) ELSE counted

\* variant: the catch block recomputes syncDetected from what is known
OnProbeFailure_Recomputes(st, message) ==
  WithField([st EXCEPT !.syncDetected = st.pendingUpload > 0 \/ st.recentActivity],
            "error", message)

\* catch (error) { status.error = ... }
OnProbeFailure(st, message) == WithField(st, "error", message)

\* the status a probe builds (the body of getSyncStatus after the cache test)
ProbeStatus(in) ==
  IF ~in.db
    THEN WithField(BaseStatus, "error", <<"Notes database not found">>)
  ELSE IF in.wal = "throws"
    THEN OnProbeFailure(BaseStatus, <<"ENOENT: no such file or directory, stat">>)
  ELSE IF in.query = "throwsError"
    THEN OnProbeFailure(AfterWal(in), in.out)
  ELSE IF in.query = "throwsOther"
    THEN OnProbeFailure(AfterWal(in), <<"Failed to check sync status">>)
  ELSE AfterQuery(AfterWal(in), in.out)

\* ------------------------------------------------------------- the cache
\* variant: <= in place of <
CacheValid_Inclusive(useCache, cached, timestamp, t) ==
  useCache /\ cached # Null /\ t - timestamp <= SYNC_STATUS_CACHE_TTL_MS

\* variant: the cache is never used
CacheValid_Never(useCache, cached, timestamp, t) == FALSE

\* useCache && cachedSyncStatus && Date.now() - cacheTimestamp < TTL
CacheValid(useCache, cached, timestamp, t) ==
  useCache /\ cached # Null /\ t - timestamp < SYNC_STATUS_CACHE_TTL_MS

\* variant: a status with an error is not cached
CacheAfterProbe_SkipErrors(st, t) ==
  IF "error" \in DOMAIN st
    THEN [value |-> cachedSyncStatus, timestamp |-> cacheTimestamp]
    ELSE [value |-> st, timestamp |-> t]

\* variant: the value is stored and the timestamp is left as it was
CacheAfterProbe_ValueOnly(st, t) == [value |-> st, timestamp |-> cacheTimestamp]

\* cachedSyncStatus = status; cacheTimestamp = Date.now()
CacheAfterProbe(st, t) == [value |-> st, timestamp |-> t]

\* variant: clearSyncStatusCache does nothing
ClearedCache_Noop == [value |-> cachedSyncStatus, timestamp |-> cacheTimestamp]

\* cachedSyncStatus = null; cacheTimestamp = 0
ClearedCache == [value |-> Null, timestamp |-> 0]

\* getSyncStatus(useCache) when the probe would find in and take dt ms:
\* the returned status, the cache and the clock afterwards
GetSyncStatusOutcome(useCache, in, dt) ==
  IF CacheValid(useCache, cachedSyncStatus, cacheTimestamp, now)
    THEN [status |-> cachedSyncStatus, value |-> cachedSyncStatus,
          timestamp |-> cacheTimestamp, now |-> now, probed |-> FALSE, input |-> NoInput]
    ELSE LET st == ProbeStatus(in)
             c == CacheAfterProbe(st, now + dt)
         IN [status |-> st, value |-> c.value, timestamp |-> c.timestamp,
             now |-> now + dt, probed |-> TRUE, input |-> in]

\* what lastCall remembers of a getSyncStatus call made by by ("direct", or
\* the "before" or "after" read of a bracket); filledBy is the caller whose
\* probe filled the cache entry the call left behind
GetRecord(by, useCache, o) ==
  [op |-> "get", by |-> by,
   filledBy |-> IF o.probed THEN by ELSE lastCall.filledBy, useCache |-> useCache, probed |-> o.probed, status |-> o.status,
   input |-> o.input, hadCache |-> cachedSyncStatus # Null,
   hit |-> IF o.probed THEN Null ELSE cachedSyncStatus, tsBefore |-> cacheTimestamp,
   at |-> now, doneAt |-> o.now,
   afterClear |-> lastCall.op = "clear",
   clearedTs |-> IF lastCall.op = "clear" THEN lastCall.tsBefore ELSE 0]

\* --------------------------------------------------------------- bracket
\* variant: getSyncStatus() in place of getSyncStatus(false)
AfterUseCache_Default == TRUE

\* const syncAfter = getSyncStatus(false)
AfterUseCache == FALSE

\* variant: the guard on syncBefore.syncDetected is missing
Interference_NoGuard(before, after) ==
  (before.pendingUpload # after.pendingUpload)
  \/ (before.recentActivity /\ after.recentActivity)

\* variant: && in place of ||
Interference_And(before, after) ==
  (before.syncDetected /\ before.pendingUpload # after.pendingUpload)
  /\ (before.recentActivity /\ after.recentActivity)

\* (syncBefore.syncDetected && pendingChanged) || (wasRecentBefore && isRecentAfter)
Interference(before, after) ==
  (before.syncDetected /\ before.pendingUpload # after.pendingUpload)
  \/ (before.recentActivity /\ after.recentActivity)

InterferenceWarning(before, after) ==
  << "iCloud sync activity detected during", "Pending items:",
     ToString(before.pendingUpload), "->", ToString(after.pendingUpload),
     DOT, "Results may have been affected by sync." >>

\* the SyncAwareResult the bracket returns
BracketResult(r, before, after) ==
  LET base == [result |-> r, syncBefore |-> before, syncAfter |-> after,
               syncInterference |-> Interference(before, after)]
  IN IF Interference(before, after)
       THEN WithField(base, "interferenceWarning", InterferenceWarning(before, after))
       ELSE base

\* --------------------------------------------------------------- actions
\* time passes
Tick ==
  /\ now + ClockStepMs <= MaxNow
  /\ now' = now + ClockStepMs
  /\ UNCHANGED << cachedSyncStatus, cacheTimestamp, lastCall, bpc, basync,
                  syncBefore, opResult, bevents, bresult >>
  /\ UNCHANGED nonSyncVars

\* getSyncStatus(useCache) called directly
GetSyncStatus(useCache, in, dt) ==
  /\ bpc = "idle"
  /\ now + dt <= MaxNow
  /\ LET o == GetSyncStatusOutcome(useCache, in, dt)
     IN /\ cachedSyncStatus' = o.value
        /\ cacheTimestamp' = o.timestamp
        /\ now' = o.now
        /\ lastCall' = GetRecord("direct", useCache, o)
  /\ UNCHANGED << bpc, basync, syncBefore, opResult, bevents, bresult >>
  /\ UNCHANGED nonSyncVars

\* clearSyncStatusCache()
ClearSyncStatusCache ==
  /\ bpc = "idle"
  /\ cachedSyncStatus' = ClearedCache.value
  /\ cacheTimestamp' = ClearedCache.timestamp
  /\ lastCall' = [op |-> "clear", tsBefore |-> cacheTimestamp, at |-> now]
  /\ UNCHANGED << now, bpc, basync, syncBefore, opResult, bevents, bresult >>
  /\ UNCHANGED nonSyncVars

\* withSyncAwareness (async) / withSyncAwarenessSync up to the call of fn
BracketBegin(async, in, dt) ==
  /\ bpc = "idle"
  /\ now + dt <= MaxNow
  /\ LET o == GetSyncStatusOutcome(TRUE, in, dt)
     IN /\ cachedSyncStatus' = o.value
        /\ cacheTimestamp' = o.timestamp
        /\ now' = o.now
        /\ lastCall' = GetRecord("before", TRUE, o)
        /\ syncBefore' = o.status
        /\ bevents' = << IF o.probed THEN "before:probe" ELSE "before:cached" >>
  /\ basync' = async
  /\ bpc' = "op"
  /\ opResult' = Null
  /\ bresult' = Null
  /\ UNCHANGED nonSyncVars

\* fn() returns (or its promise resolves)
OpReturns(v) ==
  /\ bpc = "op"
  /\ opResult' = v
  /\ bevents' = Append(bevents, "op")
  /\ bpc' = IF basync THEN "delay" ELSE "after"
  /\ UNCHANGED << now, cachedSyncStatus, cacheTimestamp, lastCall, basync,
                  syncBefore, bresult >>
  /\ UNCHANGED nonSyncVars

\* fn() throws (or its promise rejects): the bracket call ends with it
OpThrows ==
  /\ bpc = "op"
  /\ bevents' = Append(bevents, "op:threw")
  /\ bpc' = "threw"
  /\ UNCHANGED << now, cachedSyncStatus, cacheTimestamp, lastCall, basync,
                  syncBefore, opResult, bresult >>
  /\ UNCHANGED nonSyncVars

\* await new Promise(resolve => setTimeout(resolve, VERIFICATION_DELAY_MS))
DelayElapses ==
  /\ bpc = "delay"
  /\ now + VERIFICATION_DELAY_MS <= MaxNow
  /\ now' = now + VERIFICATION_DELAY_MS
  /\ bevents' = Append(bevents, "delay")
  /\ bpc' = "after"
  /\ UNCHANGED << cachedSyncStatus, cacheTimestamp, lastCall, basync,
                  syncBefore, opResult, bresult >>
  /\ UNCHANGED nonSyncVars

\* the after snapshot, the interference test and the return
BracketEnd(in, dt) ==
  /\ bpc = "after"
  /\ now + dt <= MaxNow
  /\ LET o == GetSyncStatusOutcome(AfterUseCache, in, dt)
     IN /\ cachedSyncStatus' = o.value
        /\ cacheTimestamp' = o.timestamp
        /\ now' = o.now
        /\ lastCall' = GetRecord("after", AfterUseCache, o)
        /\ bevents' = Append(bevents, IF o.probed THEN "after:probe" ELSE "after:cached")
        /\ bresult' = BracketResult(opResult, syncBefore, o.status)
  /\ bpc' = "done"
  /\ UNCHANGED << basync, syncBefore, opResult >>
  /\ UNCHANGED nonSyncVars

\* the caller has taken the bracket's result (or caught what fn threw)
BracketDiscard ==
  /\ bpc \in {"done", "threw"}
  /\ bpc' = "idle"
  /\ basync' = FALSE
  /\ syncBefore' = Null
  /\ opResult' = Null
  /\ bevents' = <<>>
  /\ bresult' = Null
  /\ UNCHANGED << now, cachedSyncStatus, cacheTimestamp, lastCall >>
  /\ UNCHANGED nonSyncVars

SyncNext ==
  \/ Tick
  \/ \E u \in BOOLEAN : \E in \in ProbeInputs : \E dt \in ProbeDurationsMs :
       GetSyncStatus(u, in, dt)
  \/ ClearSyncStatusCache
  \/ \E a \in BOOLEAN : \E in \in ProbeInputs : \E dt \in ProbeDurationsMs :
       BracketBegin(a, in, dt)
  \/ \E v \in OpValues : OpReturns(v)
  \/ OpThrows
  \/ DelayElapses
  \/ \E in \in ProbeInputs : \E dt \in ProbeDurationsMs : BracketEnd(in, dt)
  \/ BracketDiscard

SyncSpec == Init /\ [][SyncNext]_vars

\* ------------------------------------------------ sync monitor properties
LastGet == lastCall.op = "get"
\* age of the cache entry when the last getSyncStatus call began
AgeAtCall == lastCall.at - lastCall.tsBefore
PendingDiffers(before, after) == before.pendingUpload # after.pendingUpload
RecentInBoth(before, after) == before.recentActivity /\ after.recentActivity
ProbeFailed(in) == ~in.db \/ in.wal = "throws" \/ in.query \in {"throwsError", "throwsOther"}

\* C12: getSyncStatus(true) with a cache entry younger than the TTL returns
\* that entry unmodified without probing; with an entry of age >= TTL it
\* probes; an entry of age >= TTL is never returned.
C12_CacheWithinTTL ==
  (LastGet /\ lastCall.useCache) =>
    /\ (lastCall.hadCache /\ AgeAtCall < SYNC_STATUS_CACHE_TTL_MS) =>
         /\ ~lastCall.probed
         /\ lastCall.status = lastCall.hit
         /\ cachedSyncStatus = lastCall.hit
         /\ cacheTimestamp = lastCall.tsBefore
    /\ (lastCall.hadCache /\ AgeAtCall >= SYNC_STATUS_CACHE_TTL_MS) => lastCall.probed
    /\ ~lastCall.probed => (lastCall.hadCache /\ AgeAtCall < SYNC_STATUS_CACHE_TTL_MS)

C12_Witness ==
  /\ LastGet /\ lastCall.useCache /\ ~lastCall.probed
  /\ AgeAtCall = SYNC_STATUS_CACHE_TTL_MS - ClockStepMs
  /\ lastCall.status.pendingUpload = 2
  /\ bpc = "idle"

\* C13: getSyncStatus(false) always probes, and every probe, whatever it
\* found, leaves its status and its time in the cache, so that a
\* getSyncStatus(true) within the TTL returns that status without probing.
C13_ProbeStoresResult ==
  LastGet =>
    /\ ~lastCall.useCache => lastCall.probed
    /\ lastCall.probed =>
         /\ cachedSyncStatus = lastCall.status
         /\ cacheTimestamp = lastCall.doneAt
         /\ now - cacheTimestamp < SYNC_STATUS_CACHE_TTL_MS =>
              \A in \in ProbeInputs : \A dt \in ProbeDurationsMs :
                /\ ~GetSyncStatusOutcome(TRUE, in, dt).probed
                /\ GetSyncStatusOutcome(TRUE, in, dt).status = lastCall.status

C13_Witness ==
  /\ LastGet /\ ~lastCall.useCache /\ lastCall.probed
  /\ lastCall.hadCache /\ AgeAtCall < SYNC_STATUS_CACHE_TTL_MS
  /\ lastCall.input.query = "throwsError"
  /\ "error" \in DOMAIN cachedSyncStatus
  /\ now > cacheTimestamp /\ now - cacheTimestamp < SYNC_STATUS_CACHE_TTL_MS

\* C14: a bracket reads the before snapshot (from the cache when it is
\* fresh) before fn starts, runs fn once, then takes the after snapshot by
\* a probe that bypasses the cache, and returns fn's value unchanged.
C14_BracketOrder ==
  /\ bpc # "idle" => bevents # <<>> /\ bevents[1] \in {"before:probe", "before:cached"}
  /\ Cardinality({i \in DOMAIN bevents : bevents[i] \in {"op", "op:threw"}}) <= 1
  /\ bpc = "done" =>
       /\ bevents = << bevents[1], "op" >>
                    \o (IF basync THEN << "delay" >> ELSE << >>)
                    \o << "after:probe" >>
       /\ bresult.result = opResult
       /\ bresult.syncBefore = syncBefore
       /\ LastGet /\ lastCall.probed /\ ~lastCall.useCache
       /\ bresult.syncAfter = lastCall.status

C14_Witness ==
  /\ bpc = "done" /\ ~basync
  /\ bevents = << "before:cached", "op", "after:probe" >>
  /\ lastCall.hadCache /\ AgeAtCall < SYNC_STATUS_CACHE_TTL_MS
  /\ bresult.result = "data"
  /\ bresult.syncAfter # bresult.syncBefore

\* C15: the interference flag is true exactly when sync was detected in
\* the before snapshot and the pending counts differ, or recentActivity is
\* true in both snapshots.
C15_InterferenceExactly ==
  bpc = "done" =>
    /\ bresult.syncInterference <=>
         \/ bresult.syncBefore.syncDetected
              /\ PendingDiffers(bresult.syncBefore, bresult.syncAfter)
         \/ RecentInBoth(bresult.syncBefore, bresult.syncAfter)
    /\ ("interferenceWarning" \in DOMAIN bresult) <=> bresult.syncInterference

C15_Witness ==
  /\ bpc = "done" /\ bresult.syncInterference
  /\ bresult.syncBefore.syncDetected
  /\ bresult.syncBefore.pendingUpload = 2 /\ bresult.syncAfter.pendingUpload = 0
  /\ ~RecentInBoth(bresult.syncBefore, bresult.syncAfter)

\* C16 as stated: interference is true whenever the pending counts of the
\* two reads differ, and false when the reads are identical and recent
\* activity is not true in both.
C16_Original ==
  bpc = "done" =>
    /\ PendingDiffers(bresult.syncBefore, bresult.syncAfter) => bresult.syncInterference
    /\ (bresult.syncBefore = bresult.syncAfter
          /\ ~RecentInBoth(bresult.syncBefore, bresult.syncAfter)) => ~bresult.syncInterference

\* C16: interference is true when the pending counts differ and sync was
\* detected in the before read, and false when both reads are identical
\* and recent activity is not true in both.
C16_Amended ==
  bpc = "done" =>
    /\ (PendingDiffers(bresult.syncBefore, bresult.syncAfter)
          /\ bresult.syncBefore.syncDetected) => bresult.syncInterference
    /\ (PendingDiffers(bresult.syncBefore, bresult.syncAfter)
          /\ ~bresult.syncBefore.syncDetected
          /\ ~RecentInBoth(bresult.syncBefore, bresult.syncAfter)) => ~bresult.syncInterference
    /\ (bresult.syncBefore = bresult.syncAfter
          /\ ~RecentInBoth(bresult.syncBefore, bresult.syncAfter)) => ~bresult.syncInterference

C16_Witness ==
  /\ bpc = "done" /\ basync
  /\ bresult.syncBefore.pendingUpload = 0 /\ ~bresult.syncBefore.syncDetected
  /\ bresult.syncAfter.pendingUpload = 2
  /\ ~bresult.syncInterference

\* C17: a probe that finds the database missing, or whose modification
\* time check or count query fails, returns a status with error set and
\* syncDetected false; a bracket whose probes fail still runs fn and
\* returns its value.
C17_ProbeFailureIsData ==
  /\ (LastGet /\ lastCall.probed /\ ProbeFailed(lastCall.input)) =>
       /\ "error" \in DOMAIN lastCall.status
       /\ ~lastCall.status.syncDetected
  /\ (LastGet /\ lastCall.probed /\ ~ProbeFailed(lastCall.input)) =>
       "error" \notin DOMAIN lastCall.status
  /\ (bpc = "op" /\ LastGet) => lastCall.status = syncBefore
  /\ (bpc \in {"delay", "after", "done"}) => bevents[2] = "op"
  /\ (bpc = "done" /\ "error" \in DOMAIN bresult.syncBefore
        /\ "error" \in DOMAIN bresult.syncAfter) => bresult.result = opResult

C17_Witness ==
  /\ bpc = "done"
  /\ "error" \in DOMAIN bresult.syncBefore
  /\ bresult.syncBefore.recentActivity /\ ~bresult.syncBefore.syncDetected
  /\ "error" \in DOMAIN bresult.syncAfter
  /\ bresult.syncAfter.error = <<"Notes database not found">>
  /\ bresult.result = "success"
  /\ bevents[2] = "op"

\* C18: every status returned while the database is present has
\* syncDetected = (pendingUpload > 0 \/ recentActivity), also when the
\* count query failed after the modification time check.
C18_DetectedConsistent ==
  (LastGet /\ (lastCall.probed => lastCall.input.db)) =>
    (lastCall.status.syncDetected <=>
       (lastCall.status.pendingUpload > 0 \/ lastCall.status.recentActivity))

\* C19 as stated: recentActivity is true exactly when the reported
\* secondsSinceLastChange is below the threshold.
C19_Original ==
  LastGet =>
    (lastCall.status.recentActivity <=>
       lastCall.status.secondsSinceLastChange < RECENT_ACTIVITY_THRESHOLD_SECONDS)

\* C19: recentActivity is true exactly when the WAL file exists and its
\* unrounded age is below the threshold; the reported (rounded)
\* secondsSinceLastChange is then at most the threshold, every reported
\* value below the threshold has recentActivity true, and an unknown
\* (infinite) value has it false.
C19_Amended ==
  LastGet =>
    /\ lastCall.probed =>
         (lastCall.status.recentActivity <=>
            /\ lastCall.input.db
            /\ lastCall.input.wal = "present"
            /\ lastCall.input.ageMs < RECENT_ACTIVITY_THRESHOLD_SECONDS * 1000)
    /\ lastCall.status.recentActivity =>
         lastCall.status.secondsSinceLastChange <= RECENT_ACTIVITY_THRESHOLD_SECONDS
    /\ lastCall.status.secondsSinceLastChange < RECENT_ACTIVITY_THRESHOLD_SECONDS =>
         lastCall.status.recentActivity
    /\ lastCall.status.secondsSinceLastChange = INFINITY => ~lastCall.status.recentActivity

C19_Witness ==
  /\ LastGet /\ lastCall.probed
  /\ lastCall.input.ageMs = 4600
  /\ lastCall.status.secondsSinceLastChange = RECENT_ACTIVITY_THRESHOLD_SECONDS
  /\ lastCall.status.recentActivity

\* C20: clearSyncStatusCache empties the cached value and its timestamp,
\* and the next getSyncStatus(true) probes however fresh the cleared
\* entry was.
C20_ClearForcesProbe ==
  /\ lastCall.op = "clear" =>
       /\ cachedSyncStatus = Null
       /\ cacheTimestamp = 0
       /\ \A in \in ProbeInputs : \A dt \in ProbeDurationsMs :
            GetSyncStatusOutcome(TRUE, in, dt).probed
  /\ (LastGet /\ lastCall.afterClear) => (lastCall.probed /\ ~lastCall.hadCache)

C20_Witness ==
  /\ LastGet /\ lastCall.useCache /\ lastCall.afterClear
  /\ lastCall.clearedTs > 0
  /\ lastCall.at - lastCall.clearedTs < SYNC_STATUS_CACHE_TTL_MS
  /\ lastCall.probed

CacheEmpty == cachedSyncStatus = Null /\ cacheTimestamp = 0

\* C37: the cache value and its timestamp go together.  Either both are
\* empty (null and 0), as at module load and after clearSyncStatusCache, or
\* the value is a status and the timestamp a time at which a probe
\* finished: after a call that probed they are that probe's status and the
\* time it finished, and a call that used the cache leaves both as they were.
C37_CachePairConsistent ==
  /\ (cachedSyncStatus = Null) <=> (cacheTimestamp = 0)
  /\ cachedSyncStatus # Null => (StartNow <= cacheTimestamp /\ cacheTimestamp <= now)
  /\ lastCall.op \in {"none", "clear"} => CacheEmpty
  /\ (LastGet /\ lastCall.probed) =>
       /\ cachedSyncStatus = lastCall.status
       /\ cacheTimestamp = lastCall.doneAt
  /\ (LastGet /\ ~lastCall.probed) =>
       /\ cachedSyncStatus # Null
       /\ cachedSyncStatus = lastCall.hit
       /\ cacheTimestamp = lastCall.tsBefore

\* a bracket whose after probe failed and took time, over an older entry:
\* the cache holds the failed status with the time the probe finished
C37_Witness ==
  /\ bpc = "done"
  /\ lastCall.hadCache
  /\ lastCall.tsBefore < lastCall.at
  /\ lastCall.at < lastCall.doneAt
  /\ "error" \in DOMAIN cachedSyncStatus
  /\ cachedSyncStatus = bresult.syncAfter
  /\ cachedSyncStatus # bresult.syncBefore
  /\ cacheTimestamp = now

Probes(events) ==
  Cardinality({i \in DOMAIN events : events[i] \in {"before:probe", "after:probe"}})

\* C38: a bracket issues one or two probes.  Its before read is served
\* from the cache, with no probe, exactly when an entry younger than the TTL
\* exists; the before snapshot is then the status a probe stored before this
\* bracket was called.  The after read always probes and leaves its status
\* in the cache, so a bracket that starts within the TTL of the previous
\* one's end takes that bracket's after snapshot as its before snapshot.
C38_BeforeFromCache ==
  /\ bpc = "op" =>
       /\ LastGet /\ lastCall.by = "before"
       /\ lastCall.probed <=>
            ~(lastCall.hadCache /\ AgeAtCall < SYNC_STATUS_CACHE_TTL_MS)
       /\ bevents = << IF lastCall.probed THEN "before:probe" ELSE "before:cached" >>
       /\ ~lastCall.probed =>
            /\ syncBefore = lastCall.hit
            /\ syncBefore = cachedSyncStatus
            /\ cacheTimestamp = lastCall.tsBefore
            /\ cacheTimestamp <= lastCall.at
            /\ lastCall.filledBy \in {"direct", "before", "after"}
  /\ bpc = "done" =>
       /\ Probes(bevents) = (IF bevents[1] = "before:cached" THEN 1 ELSE 2)
       /\ lastCall.by = "after" /\ lastCall.filledBy = "after"
       /\ cachedSyncStatus = bresult.syncAfter
       /\ cacheTimestamp = lastCall.doneAt

\* the second of two brackets, started a clock step after the first ended:
\* its before snapshot is the entry the first one's after probe stored
C38_Witness ==
  /\ bpc = "op"
  /\ bevents = << "before:cached" >>
  /\ lastCall.filledBy = "after"
  /\ lastCall.tsBefore < lastCall.at
  /\ syncBefore = cachedSyncStatus
  /\ syncBefore.syncDetected

\* ------------------------------------------------- overlapping brackets
\* Two callers each make one withSyncAwareness call.  A call gives up the
\* thread at its two awaits (fn's promise, the verification delay), where
\* the other call's steps and the clock can come in between.

\* What the probes of the overlapping calls find.
OverlapInputs ==
  { in \in ProbeInputs :
      /\ in.db /\ in.query = "ok" /\ in.out \in {<<"0", NL>>, <<"2", NL>>}
      /\ in.wal = "missing" \/ (in.ageMs = 400 /\ in.out = <<"0", NL>>) }

\* The probes of the overlapping calls take no time on the model's clock;
\* time passes between the steps.
OverlapDurationsMs == {0}

\* What each caller's fn resolves with: different values, so that a result
\* handed to the wrong call would show.
FnValue(c) == IF c = 1 THEN "success" ELSE "data"

\* variant: syncBefore is one module-level variable: the snapshot read by
\* whichever call began last
BeforeOf_Latest(c, w) ==
  LET befores == {i \in DOMAIN wlog : wlog[i].kind = "before"}
  IN wlog[CHOOSE i \in befores : \A j \in befores : j <= i].status

\* const syncBefore = getSyncStatus(): a local of the call
BeforeOf(c, w) == w[c].syncBefore

syncFrame == << bpc, basync, syncBefore, opResult, bevents, bresult >>

\* withSyncAwareness up to await fn(): the before read, then fn is called
OverlapBegin(c, in, dt) ==
  /\ wcalls[c].pc = "idle"
  /\ now + dt <= MaxNow
  /\ LET o == GetSyncStatusOutcome(TRUE, in, dt)
     IN /\ cachedSyncStatus' = o.value
        /\ cacheTimestamp' = o.timestamp
        /\ now' = o.now
        /\ lastCall' = GetRecord("before", TRUE, o)
        /\ wcalls' = [wcalls EXCEPT ![c] = [pc |-> "op", syncBefore |-> o.status]]
        /\ wlog' = Append(wlog, [call |-> c, kind |-> "before", probed |-> o.probed,
                                 status |-> o.status, at |-> o.now])
  /\ UNCHANGED syncFrame
  /\ UNCHANGED nonOverlapVars

\* fn's promise resolves with v: the call goes on to start its delay timer
OverlapOpResolves(c, v) ==
  /\ wcalls[c].pc = "op"
  /\ wcalls' = [wcalls EXCEPT ![c] = [pc |-> "delay", syncBefore |-> @.syncBefore,
                                      result |-> v,
                                      delayUntil |-> now + VERIFICATION_DELAY_MS]]
  /\ wlog' = Append(wlog, [call |-> c, kind |-> "op", value |-> v, at |-> now])
  /\ UNCHANGED << now, cachedSyncStatus, cacheTimestamp, lastCall >>
  /\ UNCHANGED syncFrame
  /\ UNCHANGED nonOverlapVars

\* fn's promise rejects: the call ends with the rejection
OverlapOpRejects(c) ==
  /\ wcalls[c].pc = "op"
  /\ wcalls' = [wcalls EXCEPT ![c] = [pc |-> "threw"]]
  /\ wlog' = Append(wlog, [call |-> c, kind |-> "op:threw", at |-> now])
  /\ UNCHANGED << now, cachedSyncStatus, cacheTimestamp, lastCall >>
  /\ UNCHANGED syncFrame
  /\ UNCHANGED nonOverlapVars

\* the delay timer has fired: the after read, the interference test, return
OverlapEnd(c, in, dt) ==
  /\ wcalls[c].pc = "delay"
  /\ now >= wcalls[c].delayUntil
  /\ now + dt <= MaxNow
  /\ LET o == GetSyncStatusOutcome(AfterUseCache, in, dt)
     IN /\ cachedSyncStatus' = o.value
        /\ cacheTimestamp' = o.timestamp
        /\ now' = o.now
        /\ lastCall' = GetRecord("after", AfterUseCache, o)
        /\ wcalls' = [wcalls EXCEPT ![c] =
                        [pc |-> "done",
                         returned |-> BracketResult(@.result, BeforeOf(c, wcalls), o.status)]]
        /\ wlog' = Append(wlog, [call |-> c, kind |-> "after", probed |-> o.probed,
                                 status |-> o.status, at |-> now])
  /\ UNCHANGED syncFrame
  /\ UNCHANGED nonOverlapVars

OverlapNext ==
  \/ Tick
  \/ \E c \in Callers : \E in \in OverlapInputs : \E dt \in OverlapDurationsMs :
       OverlapBegin(c, in, dt)
  \/ \E c \in Callers : OverlapOpResolves(c, FnValue(c))
  \/ \E c \in Callers : OverlapOpRejects(c)
  \/ \E c \in Callers : \E in \in OverlapInputs : \E dt \in OverlapDurationsMs :
       OverlapEnd(c, in, dt)

OverlapSpec == Init /\ [][OverlapNext]_vars

\* the place in wlog of caller c's entry of the kind
EntryOf(c, kind) == CHOOSE i \in DOMAIN wlog : wlog[i].call = c /\ wlog[i].kind = kind

\* C39: when two withSyncAwareness calls overlap, each call's syncAfter is
\* the status of a probe that call issued after its own fn resolved and its
\* own delay elapsed, its syncBefore is what its own before read returned,
\* and its syncInterference is computed from that pair alone, although both
\* calls read and write the one cache.
C39_OwnSnapshots ==
  \A c \in Callers :
    wcalls[c].pc = "done" =>
      LET b == EntryOf(c, "before")
          r == EntryOf(c, "op")
          a == EntryOf(c, "after")
          ret == wcalls[c].returned
      IN /\ b < r /\ r < a
         /\ wlog[a].probed
         /\ wlog[a].at >= wlog[r].at + VERIFICATION_DELAY_MS
         /\ ret.result = wlog[r].value
         /\ ret.syncBefore = wlog[b].status
         /\ ret.syncAfter = wlog[a].status
         /\ ret.syncInterference = Interference(wlog[b].status, wlog[a].status)
         /\ ("interferenceWarning" \in DOMAIN ret) <=> ret.syncInterference

\* call 2 began while call 1 was waiting and took its before snapshot from
\* the cache, the one call 1 had probed; both finished, with different after
\* snapshots and different verdicts
C39_Witness ==
  /\ \A c \in Callers : wcalls[c].pc = "done"
  /\ EntryOf(1, "before") < EntryOf(2, "before")
  /\ EntryOf(2, "before") < EntryOf(1, "after")
  /\ EntryOf(1, "after") < EntryOf(2, "after")
  /\ ~wlog[EntryOf(2, "before")].probed
  /\ wcalls[1].returned.syncBefore = wcalls[2].returned.syncBefore
  /\ wcalls[1].returned.syncAfter # wcalls[2].returned.syncAfter
  /\ wcalls[1].returned.syncInterference
  /\ ~wcalls[2].returned.syncInterference

\* ================================================= classifier and escape
\* parseErrorMessage and escapeForShell applied to inputs drawn from
\* bounded sets.

\* ------------------------------------------------------------------ bounds
\* Longest script (in characters) given to escapeForShell.
MaxRawLen == 3

\* ------------------------------------------------------------------ inputs
\* Characters of a script: a letter, a single quote, a backslash, a space.
RawChars == {"a", "'", "\\", SP}

RawScripts == UNION { [1..k -> RawChars] : k \in 0..MaxRawLen }

\* Names between the quotes of a "Can't get ..." error.
ClassifiedNames == { <<"Missing">>, <<"Budget", "$$">>, <<"Lost", "connection">> }

CantGetText(kind, name) == <<"Can't", "get", kind, Q>> \o name \o <<Q, DOT>>

\* Error descriptions as osascript words them.
ErrorCores ==
  { <<"not", "authorized", "to", "send", "events">>,
    <<"Not", "authorized", "to", "send", "Apple events", "to", "Notes", DOT>>,
    <<"Application", "isn't", "running">>,
    <<"connection", "is", "invalid">>,
    <<"Can't", "get", "note", "id", Q, "x-coredata://ABC/ICNote/p1", Q, DOT>>,
    <<"folder", Q, "Work", Q, "already", "exists">>,
    <<"Can't", "delete", "folder", Q, "Work", Q>>,
    <<"Can't", "delete", "note", ":", "not", "permitted">>,
    <<"password", "protected">>,
    <<"syntax", "error">>,
    <<"Can't", "get", "window", "1", DOT>>,
    <<"Note not found">> }
  \cup { CantGetText(kind, name) :
           kind \in {"note", "folder", "account"}, name \in ClassifiedNames }

\* the text osascript prints for a description: position, marker, number
ExecutionErrorText(core) == <<"36:50:", EXEC_MARKER>> \o core \o <<SP, "(-1728)">>

\* Strings given to parseErrorMessage.
ErrorTexts ==
  ErrorCores
  \cup { ExecutionErrorText(core) : core \in ErrorCores }
  \cup { <<>>, <<SP>>, <<NL, SP>>, <<EXEC_MARKER, SP, "(-1728)">> }

\* -------------------------------------------------- the shell's reading
\* How sh reads the characters of one word: a single quote opens or closes
\* a quoted stretch, inside which every character is literal; outside, a
\* backslash makes the next character literal.  word is the text of the
\* argument, open says that a quote was left unclosed, bare that some
\* character other than an escaped one was read outside quotes.
RECURSIVE ShellScan(_, _, _, _)
ShellScan(t, inQuote, word, bare) ==
  IF t = <<>> THEN [word |-> word, open |-> inQuote, bare |-> bare]
  ELSE IF inQuote
    THEN IF Head(t) = "'"
           THEN ShellScan(Tail(t), FALSE, word, bare)
           ELSE ShellScan(Tail(t), TRUE, Append(word, Head(t)), bare)
  ELSE IF Head(t) = "'" THEN ShellScan(Tail(t), TRUE, word, bare)
  ELSE IF Head(t) = "\\"
    THEN IF Len(t) >= 2
           THEN ShellScan(Tail(Tail(t)), FALSE, Append(word, t[2]), bare)
           ELSE [word |-> word, open |-> TRUE, bare |-> bare]
  ELSE ShellScan(Tail(t), FALSE, Append(word, Head(t)), TRUE)

\* the argument of -e in `osascript -e '${escapedScript}'`
QuotedArgument(escaped) == <<"'">> \o escaped \o <<"'">>

\* ------------------------------------------------------------------ state
\* the inputs of one classifier call and one escape call
ClassifyInputs ==
  /\ ctext \in ErrorTexts
  /\ cout = Null
  /\ craw \in RawScripts
  /\ cesc = Null

ClassifyInit == ExecInit /\ SyncInit /\ NotesInit /\ ProbeIdle /\ OverlapIdle /\ ClassifyInputs

\* parseErrorMessage(ctext)
Classify ==
  /\ cout = Null
  /\ cout' = [message |-> parseErrorMessage(ctext)]
  /\ UNCHANGED << ctext, craw, cesc >>
  /\ UNCHANGED nonClassifyVars

\* escapeForShell(craw)
Escape ==
  /\ cesc = Null
  /\ cesc' = [escaped |-> escapeForShell(craw)]
  /\ UNCHANGED << ctext, cout, craw >>
  /\ UNCHANGED nonClassifyVars

ClassifyNext == Classify \/ Escape

ClassifySpec == ClassifyInit /\ [][ClassifyNext]_vars

\* ---------------------------------------------------------- properties
Classified == cout # Null
Escaped == cesc # Null
\* the message the classifier returned, the string the escape returned
Message == cout.message
EscapedScript == cesc.escaped

\* p occurs in t
Contains(t, p) == \E i \in 1..Len(t) : PhraseAt(t, p, i)

NumQuotes(t) == Cardinality({ i \in 1..Len(t) : t[i] = "'" })

\* C21: the classifier returns the message of the earliest entry of
\* ERROR_MAPPINGS whose pattern matches the core error text; entries after
\* it do not influence the result.
C21_FirstMatchWins ==
  Classified =>
    \A r \in 1..NumRules :
      (RuleMatches(r, CoreError(ctext))
         /\ \A q \in 1..(r - 1) : ~RuleMatches(q, CoreError(ctext))) =>
        Message = RuleMessage(r, CoreError(ctext))

C21_Witness ==
  /\ Classified
  /\ ctext = ExecutionErrorText(<<"Can't", "delete", "note", ":", "not", "permitted">>)
  /\ {1, 9} \subseteq MatchingRules(CoreError(ctext))
  /\ Message[1] = "Permission"

\* C22: the classifier returns a non-empty message for every input, and
\* "Unknown AppleScript error" for an input with no usable text (empty,
\* whitespace only, or an execution error line with an empty description).
C22_ClassifierTotal ==
  /\ ~Classified => Trim(parseErrorMessage(ctext)) # <<>>
  /\ Classified =>
       /\ Trim(Message) # <<>>
       /\ OnlyWhitespace(ctext) => Message = <<"Unknown AppleScript error">>
       /\ Trim(CoreError(ctext)) = <<>> => Message = <<"Unknown AppleScript error">>

C22_Witness ==
  /\ Classified
  /\ ctext = <<NL, SP>>
  /\ Message = <<"Unknown AppleScript error">>

\* C24: a failure Can't get note "X" gives a message that contains X and
\* the case-sensitivity hint, for every name X; a folder or account failure
\* gives a message that contains X and the list-folders or list-accounts
\* hint.
C24_NotFoundKeepsName ==
  Classified =>
    \A name \in ClassifiedNames :
      /\ ctext \in {CantGetText("note", name), ExecutionErrorText(CantGetText("note", name))} =>
           /\ Contains(Message, name)
           /\ Contains(Message, <<"Verify the title is exact (case-sensitive).">>)
      /\ ctext \in {CantGetText("folder", name), ExecutionErrorText(CantGetText("folder", name))} =>
           /\ Contains(Message, name)
           /\ Contains(Message, <<"Use list-folders to see available folders.">>)
      /\ ctext \in {CantGetText("account", name), ExecutionErrorText(CantGetText("account", name))} =>
           /\ Contains(Message, name)
           /\ Contains(Message, <<"Use list-accounts to see available accounts.">>)

\* C25: escapeForShell returns a script without single quotes unchanged
\* and replaces each single quote by the four characters '\''; the shell
\* reads the single-quoted result as one argument equal to the script, no
\* quote of the script closing it.
C25_EscapeForShell ==
  Escaped =>
    /\ NumQuotes(craw) = 0 => EscapedScript = craw
    /\ Len(EscapedScript) = Len(craw) + 3 * NumQuotes(craw)
    /\ LET read == ShellScan(QuotedArgument(EscapedScript), FALSE, <<>>, FALSE)
       IN /\ read.word = craw
          /\ ~read.open
          /\ ~read.bare

C25_Witness ==
  /\ Escaped
  /\ craw = <<"'", "\\", "'">>
  /\ EscapedScript = <<"'", "\\", "'", "'", "\\", "'", "\\", "'", "'">>

\* ------------------------------- executeAppleScript properties, continued
\* the core text says that the caller is not authorized to send events
SaysNotAuthorized(t) == HasPhrase(CoreError(t), <<"not", "authorized", "to", "send">>)

\* C23: a failure (other than a timeout kill) whose text says "not
\* authorized to send ... events" is reported with a message that starts
\* with "Permission denied" and names the automation settings, and is not
\* retried: it ends the call.
C23_PermissionNotRetried ==
  \A i \in 1..NumAttempts :
    (/\ ~attempts[i].ok
     /\ ~attempts[i].isTimeout
     /\ attempts[i].thrown.type \in {"Error", "string"}
     /\ SaysNotAuthorized(attempts[i].thrown.message)) =>
      /\ PhraseAt(attempts[i].errorMessage, <<"Permission", "denied">>, 1)
      /\ Contains(attempts[i].errorMessage,
                  <<"Grant automation access in System Preferences > Privacy & Security > Automation.">>)
      /\ ~attempts[i].canRetry
      /\ i = NumAttempts
      /\ Returned
      /\ result = FailureResult(attempts[i].errorMessage)
      /\ Len(sleeps) = i - 1

C23_Witness ==
  /\ Returned
  /\ maxRetries = 3
  /\ NumAttempts = 2
  /\ ~attempts[1].ok /\ attempts[1].canRetry
  /\ ~attempts[2].ok
  /\ Len(attempts[2].thrown.message) >= 3
  /\ attempts[2].thrown.message[3] = "Not"
  /\ SaysNotAuthorized(attempts[2].thrown.message)
  /\ result.error[1] = "Permission"

\* C26: at most one osascript child started by execSync is alive at any
\* time, and none is alive during a backoff sleep, when the next attempt
\* is about to start, after the call returned or when a call begins.
C26_OneChildAtATime ==
  /\ children \in {0, 1}
  /\ pc = "running" <=> children = 1
  /\ pc \in {"idle", "loop", "sleeping", "returned"} => children = 0

C26_Witness ==
  /\ pc = "running"
  /\ execCalls = 2
  /\ children = 1
  /\ attempts[1].isTimeout
  /\ Len(sleeps) = 1

\* C30: sleep k of a call follows failed retryable attempt k, which is not
\* the final allowed attempt, and precedes attempt k + 1; a call that made
\* N >= 1 attempts has slept N - 1 times when it returns (a call that made
\* no attempt has not slept), so nothing sleeps after a success, a
\* non-retryable failure or the final allowed attempt.
C30_SleepsBetweenAttempts ==
  /\ \A k \in 1..Len(sleeps) :
       /\ k <= NumAttempts
       /\ ~attempts[k].ok
       /\ attempts[k].canRetry
       /\ k < maxRetries
  /\ pc = "sleeping" => Len(sleeps) = NumAttempts
  /\ pc \in {"loop", "running"} => Len(sleeps) + 1 = attempt
  /\ (Returned /\ NumAttempts >= 1) => Len(sleeps) = NumAttempts - 1
  /\ NumAttempts = 0 => sleeps = <<>>

C30_Witness ==
  /\ Returned
  /\ maxRetries = 3
  /\ NumAttempts = 3
  /\ ~LastAttempt.ok /\ LastAttempt.canRetry
  /\ Len(sleeps) = 2

\* the sleep after attempt i was called: attempt i is retried
Retried(i) == Len(sleeps) >= i

RECURSIVE ReplayLoop(_, _, _, _, _, _, _)
ReplayLoop(a, max, delay, timeout, outcomes, slept, last) ==
  IF ~LoopCondition(a, max) \/ outcomes = <<>>
    THEN [n |-> a - 1, sleeps |-> slept, result |-> last]
  ELSE IF Head(outcomes).ok
    THEN [n |-> a, sleeps |-> slept, result |-> SuccessResult(Head(outcomes).stdout)]
  ELSE LET errorMessage == ErrorMessageOf(Head(outcomes).thrown, timeout)
       IN IF CanRetry(Head(outcomes).thrown, errorMessage) /\ HasAttemptsLeft(a, max)
            THEN ReplayLoop(a + 1, max, delay, timeout, Tail(outcomes),
                            Append(slept, BackoffDelay(delay, a)),
                            FailureResult(errorMessage))
            ELSE [n |-> a, sleeps |-> slept, result |-> FailureResult(errorMessage)]

\* executeAppleScript(s, o) as a function of its arguments and of what
\* execSync does during it: the counter starts at 1 and lastError at null
Replay(s, o, outcomes) ==
  IF IsEmptyScript(s) THEN [n |-> 0, sleeps |-> <<>>, result |-> EmptyScriptResult]
  ELSE ReplayLoop(1, OrDefault(o, "maxRetries", DEFAULT_MAX_RETRIES),
                  OrDefault(o, "retryDelayMs", DEFAULT_RETRY_DELAY_MS),
                  OrDefault(o, "timeoutMs", DEFAULT_TIMEOUT_MS),
                  outcomes, <<>>, Null)

\* C32: whatever calls were made before and whatever was left of them, the
\* attempt counter of a call starts at 1 and counts this call's execSync
\* calls, and the number of attempts, the delays and the returned outcome
\* are those of Replay: a function of the call's arguments and of what
\* execSync did during the call.
C32_StatelessAcrossCalls ==
  /\ pc \in {"loop", "running"} => attempt = NumAttempts + 1
  /\ pc = "running" => attempt = execCalls
  /\ pc = "sleeping" => attempt = NumAttempts
  /\ Returned =>
       /\ NumAttempts = Replay(script, options, attempts).n
       /\ sleeps = Replay(script, options, attempts).sleeps
       /\ result = Replay(script, options, attempts).result

\* a call of three failed attempts, then a call that succeeds at its second
C32_Witness ==
  /\ Returned
  /\ previous # Null
  /\ previous.attempts = 3
  /\ ~previous.result.success
  /\ NumAttempts = 2
  /\ result.success
  /\ Len(sleeps) = 1

\* ------------------------------------------------------- stderr of a call
IsConsoleLine(line) == line.kind = "console"
IsDebugLine(line) == line.kind = "debug"

\* the lines console.error wrote outside debugLog, and those debugLog wrote
ConsoleLines == SelectSeq(stderr, IsConsoleLine)
DebugLines == SelectSeq(stderr, IsDebugLine)

FailedAttempts == { i \in 1..NumAttempts : ~attempts[i].ok }

\* C33: each failed attempt writes exactly one line outside debugLog,
\* whatever the verbosity flags are: a retry notice when the attempt is
\* retried, a timeout or error line otherwise.  debugLog's lines (one when
\* the call begins, one per attempt, successful or failed) are written only
\* when the flags enable them, so a successful attempt writes nothing
\* without them.
C33_OneLinePerFailedAttempt ==
  /\ Len(ConsoleLines) = Cardinality(FailedAttempts)
  /\ \A i \in 1..Len(ConsoleLines) :
       /\ i \in FailedAttempts
       /\ ConsoleLines[i].message = attempts[i].errorMessage
       /\ ConsoleLines[i].head =
            IF Retried(i) THEN "AppleScript retry:"
            ELSE IF attempts[i].isTimeout THEN "AppleScript timeout:"
            ELSE "AppleScript error:"
       /\ Retried(i) => ConsoleLines[i].attempt = i /\ ConsoleLines[i].delay = sleeps[i]
  /\ pc \in {"loop", "running", "sleeping"} =>
       Len(DebugLines) = IF isDebugEnabled(env) THEN 1 + NumAttempts ELSE 0
  /\ (Returned /\ ~IsEmptyScript(script)) => Len(DebugLines) \in {0, 1 + NumAttempts}
  /\ (Returned /\ IsEmptyScript(script)) => stderr = <<>>

\* verbosity off: a failed attempt that is retried, then a successful one;
\* stderr holds the retry notice and nothing else
C33_Witness ==
  /\ Returned
  /\ ~isDebugEnabled(env) /\ ~startDebug
  /\ NumAttempts = 2
  /\ ~attempts[1].ok /\ attempts[2].ok
  /\ Len(stderr) = 1
  /\ stderr[1].head = "AppleScript retry:"

\* C34: whether a call writes debugLog's lines is settled by the DEBUG and
\* VERBOSE flags as they were when the process started; assigning them
\* later, between calls, changes nothing.
C34_VerbosityResolvedAtStart ==
  (pc \in {"loop", "running", "sleeping"} \/ (Returned /\ ~IsEmptyScript(script))) =>
    (DebugLines # <<>> <=> startDebug)

\* ===================================================== one probe by itself
\* The body of getSyncStatus after the cache test, applied to whatever the
\* database, the WAL file and the count query can present.

\* ------------------------------------------------------------------ bounds
\* Length of the text sqlite3 prints, in characters.
MaxOutLen == 3

\* ------------------------------------------------------------------ inputs
OutChars == {"0", "2", "-", "x", SP, NL}

OutTexts == UNION { [1..n -> OutChars] : n \in 0..MaxOutLen }

ProbeCases ==
  { in \in ProbeInputs : in.query # "ok" \/ ~in.db \/ in.wal = "throws" }
  \cup { [db |-> TRUE, wal |-> w.wal, ageMs |-> w.ageMs, query |-> "ok", out |-> o] :
           w \in WalStates, o \in OutTexts }

ProbeCaseInit ==
  /\ ExecInit /\ SyncInit /\ ClassifyIdle /\ NotesInit /\ OverlapIdle
  /\ pin \in ProbeCases
  /\ pout = Null

\* the probe runs on pin
Probe ==
  /\ pout = Null
  /\ pout' = [status |-> ProbeStatus(pin)]
  /\ UNCHANGED pin
  /\ UNCHANGED nonProbeVars

ProbeSpec == ProbeCaseInit /\ [][Probe]_vars

\* ------------------------------------------------------------ properties
Probed == pout # Null
Status == pout.status
HasWarning == "warning" \in DOMAIN Status

MaxBatchLen == 2
\* Notes created by copies over one behaviour.
MaxCopies == 2

\* ---------------------------------------------------------- Notes.app
NoteFolders == { <<"Notes">>, <<"Archive">> }

\* the CoreData id of note number n
NoteId(n) == <<"x-coredata://ABC/ICNote/p", ToString(n)>>

\* the name Notes.app derives from a body: its first line
TitleOf(body) ==
  LET opens == { i \in 1..Len(body) : body[i] = "<div>" }
      closes == { i \in 1..Len(body) : body[i] = "</div>" }
  IN IF opens = {} \/ closes = {} THEN <<>>
     ELSE SubSeq(body, Min(opens) + 1, Min(closes) - 1)

\* how AppleScript reads the inside of a double-quoted string literal
RECURSIVE AppleScriptString(_)
AppleScriptString(t) ==
  IF t = <<>> THEN <<>>
  ELSE IF Head(t) = "\\" /\ Len(t) >= 2
    THEN <<t[2]>> \o AppleScriptString(Tail(Tail(t)))
  ELSE <<Head(t)>> \o AppleScriptString(Tail(t))

\* {name of n, id of n, creation date of n, modification date of n,
\*  shared of n, password protected of n} as osascript prints it
NoteProps(store, n) ==
  TitleOf(store[n].body) \o <<",">> \o NoteId(n)
  \o << ",", "date Saturday", ",", "December 27", ",", "2025 at 3:44:02 PM",
        ",", "date Saturday", ",", "December 27", ",", "2025 at 3:44:02 PM",
        ",", "false", ",", IF store[n].locked THEN "true" ELSE "false" >>

WithId(store, id) == { n \in DOMAIN store : NoteId(n) = id }
WithTitle(store, title) == { n \in DOMAIN store : TitleOf(store[n].body) = title }

Command(kind, target, folder, body) ==
  [kind |-> kind, target |-> target, folder |-> folder, body |-> body]

\* the notes a command refers to
Referred(store, cmd) ==
  IF cmd.kind \in {"details", "body"}
    THEN WithTitle(store, AppleScriptString(cmd.target))
    ELSE WithId(store, cmd.target)

\* Notes.app can carry the command out
Applies(store, cmd) ==
  CASE cmd.kind \in {"details", "getById", "delete"} -> Referred(store, cmd) # {}
    [] cmd.kind \in {"body", "bodyById"} ->
         /\ Referred(store, cmd) # {}
         /\ ~store[Min(Referred(store, cmd))].locked
    [] cmd.kind = "make" -> AppleScriptString(cmd.folder) \in NoteFolders

\* what osascript prints when the command is carried out
Output(store, fresh, cmd) ==
  CASE cmd.kind \in {"details", "getById"} -> NoteProps(store, Min(Referred(store, cmd)))
    [] cmd.kind \in {"body", "bodyById"} -> store[Min(Referred(store, cmd))].body
    [] cmd.kind = "make" -> <<"note id">> \o NoteId(fresh)
    [] cmd.kind = "delete" -> <<>>

\* the store after the command is carried out
Effect(store, fresh, cmd) ==
  CASE cmd.kind = "make" ->
         store @@ (fresh :> [folder |-> AppleScriptString(cmd.folder),
                             body |-> AppleScriptString(cmd.body),
                             locked |-> FALSE])
    [] cmd.kind = "delete" ->
         [n \in (DOMAIN store) \ {Min(Referred(store, cmd))} |-> store[n]]
    [] OTHER -> store

\* An environment e is the store, the next fresh number, the log of the
\* scripts run so far and the set failing of the positions (in the order
\* of the calls) at which the call fails for a reason of its own (timeout,
\* Notes.app busy).
StartEnv(failing) ==
  [notes |-> notes, fresh |-> nfresh, log |-> <<>>, failing |-> failing]

\* executeAppleScript(script) for the script of cmd
RunScript(e, cmd) ==
  LET position == Len(e.log) + 1
      ok == position \notin e.failing /\ Applies(e.notes, cmd)
  IN [e |-> [e EXCEPT !.notes = IF ok THEN Effect(e.notes, e.fresh, cmd) ELSE @,
                      !.fresh = IF ok /\ cmd.kind = "make" THEN @ + 1 ELSE @,
                      !.log = Append(@, [cmd |-> cmd, ok |-> ok])],
      res |-> IF ok
                THEN [success |-> TRUE, output |-> Output(e.notes, e.fresh, cmd)]
                ELSE [success |-> FALSE, output |-> <<>>, error |-> <<"failed">>]]

\* ------------------------------------------------------- text helpers
\* escapeForAppleScript: & \ " newline, character by character
RECURSIVE escapeForAppleScript(_)
escapeForAppleScript(text) ==
  IF text = <<>> THEN <<>>
  ELSE (CASE Head(text) = "&" -> <<"&amp;">>
          [] Head(text) = "\\" -> <<"&#92;">>
          [] Head(text) = Q -> <<"\\", Q>>
          [] Head(text) \in {NL, "\t"} -> <<"<br>">>
          [] OTHER -> <<Head(text)>>)
       \o escapeForAppleScript(Tail(text))

\* originalContent.replace(/"/g, '\\"').replace(/'/g, "'\\''")
RECURSIVE SafeContent(_)
SafeContent(content) ==
  IF content = <<>> THEN <<>>
  ELSE (CASE Head(content) = Q -> <<"\\", Q>>
          [] Head(content) = "'" -> <<"'", "\\", "'", "'">>
          [] OTHER -> <<Head(content)>>)
       \o SafeContent(Tail(content))

Commas(output) == { i \in 1..Len(output) : output[i] = "," }

\* the id and the password flag getNoteById / getNoteDetails parse out of
\* the output: the id is what stands between the first and the second comma
ParsedNote(output) ==
  LET firstComma == IF Commas(output) = {} THEN 0 ELSE Min(Commas(output))
      later == { i \in Commas(output) : i > firstComma }
      n == Len(output)
  IN [title |-> IF firstComma = 0 THEN <<>>
                ELSE Trim(SubSeq(output, 1, firstComma - 1)),
      id |-> IF later = {} THEN <<>>
             ELSE Trim(SubSeq(output, firstComma + 1, Min(later) - 1)),
      passwordProtected |->
        /\ n >= 4
        /\ output[n - 3] = "," /\ output[n - 2] \in {"true", "false"}
        /\ output[n - 1] = "," /\ output[n] = "true"]

\* ------------------------------------------------------ manager methods
\* Each method maps an environment to the environment after it and the
\* value it returns.  A method's result is bound once, as the const it is
\* in the code: The({ ... : r \in { call } }) is "const r = call; ...".
The(S) == CHOOSE x \in S : TRUE

getNoteContent(e, title) ==
  The({ [e |-> r.e, value |-> IF r.res.success THEN r.res.output ELSE <<>>] :
        r \in { RunScript(e, Command("body", escapeForAppleScript(title), <<>>, <<>>)) } })

getNoteContentById(e, id) ==
  The({ [e |-> r.e, value |-> IF r.res.success THEN r.res.output ELSE <<>>] :
        r \in { RunScript(e, Command("bodyById", id, <<>>, <<>>)) } })

getNoteById(e, id) ==
  The({ [e |-> r.e,
         value |-> IF ~r.res.success THEN Null
                   ELSE IF Cardinality(Commas(r.res.output)) < 2 THEN Null
                   ELSE ParsedNote(r.res.output)] :
        r \in { RunScript(e, Command("getById", id, <<>>, <<>>)) } })

getNoteDetails(e, title) ==
  The({ [e |-> r.e,
         value |-> IF ~r.res.success THEN Null ELSE ParsedNote(r.res.output)] :
        r \in { RunScript(e, Command("details", escapeForAppleScript(title), <<>>, <<>>)) } })

isNotePasswordProtectedById(e, id) ==
  The({ [e |-> note.e, value |-> note.value # Null /\ note.value.passwordProtected] :
        note \in { getNoteById(e, id) } })

deleteNoteById(e, id) ==
  The({ [e |-> r.e, value |-> r.res.success] :
        r \in { RunScript(e, Command("delete", id, <<>>, <<>>)) } })

\* variant: the delete is issued whatever the copy did
CopySucceeded_Ignored(copyResult) == TRUE

\* if (!copyResult.success) return false
CopySucceeded(copyResult) == copyResult.success

\* variant: a failed delete makes the move fail
AfterDelete_Strict(deleteResult) == deleteResult.success

\* if (!deleteResult.success) { ...; return true; } return true
AfterDelete(deleteResult) == TRUE

\* the delete step of moveNote and moveNoteById
DeleteOriginal(e, id) ==
  The({ [e |-> deleteResult.e, value |-> AfterDelete(deleteResult.res)] :
        deleteResult \in { RunScript(e, Command("delete", id, <<>>, <<>>)) } })

\* the copy and delete steps shared by moveNote and moveNoteById
CopyThenDelete(e, content, destinationFolder, id) ==
  The({ IF ~CopySucceeded(copyResult.res) THEN [e |-> copyResult.e, value |-> FALSE]
        ELSE DeleteOriginal(copyResult.e, id) :
        copyResult \in { RunScript(e, Command("make", <<>>,
                                              escapeForAppleScript(destinationFolder),
                                              SafeContent(content))) } })

\* moveNote from the content step on
MoveWithContent(originalNote, title, destinationFolder) ==
  The({ IF originalContent.value = <<>>
          THEN [e |-> originalContent.e, value |-> FALSE]
          ELSE CopyThenDelete(originalContent.e, originalContent.value,
                              destinationFolder, originalNote.value.id) :
        originalContent \in { getNoteContent(originalNote.e, title) } })

moveNote(e, title, destinationFolder) ==
  The({ IF originalNote.value = Null THEN [e |-> originalNote.e, value |-> FALSE]
        ELSE MoveWithContent(originalNote, title, destinationFolder) :
        originalNote \in { getNoteDetails(e, title) } })

moveNoteById(e, id, destinationFolder) ==
  The({ IF originalContent.value = <<>>
          THEN [e |-> originalContent.e, value |-> FALSE]
          ELSE CopyThenDelete(originalContent.e, originalContent.value,
                              destinationFolder, id) :
        originalContent \in { getNoteContentById(e, id) } })

\* createBatchResult(id, success, error)
createBatchResult(id, success, error) ==
  IF error # "" THEN [id |-> id, success |-> success, error |-> error]
  ELSE [id |-> id, success |-> success]

\* variant: the loop ends at the first id that fails
AfterFailure_Break(ids) == <<>>

\* continue: the loop goes on with the ids after the failed one
AfterFailure(ids) == Tail(ids)

\* the password check both batch loops make of a note that was found
BatchProtected(e, id) ==
  The({ [e |-> protected.e,
         value |-> IF protected.value THEN "Note is password-protected" ELSE ""] :
        protected \in { isNotePasswordProtectedById(e, id) } })

\* variant: a note that was found is not asked for its password flag
BatchChecks_ExistenceOnly(e, id) ==
  The({ [e |-> note.e, value |-> IF note.value = Null THEN "Note not found" ELSE ""] :
        note \in { getNoteById(e, id) } })

\* the checks both batch loops make before acting on id: "" when both pass
BatchChecks(e, id) ==
  The({ IF note.value = Null THEN [e |-> note.e, value |-> "Note not found"]
        ELSE BatchProtected(note.e, id) :
        note \in { getNoteById(e, id) } })

\* the rest of the loop once id's result is known
BatchStep(done, ids, results, failure) ==
  [e |-> done.e,
   ids |-> IF failure = "" THEN Tail(ids) ELSE AfterFailure(ids),
   results |-> Append(results, createBatchResult(Head(ids), failure = "", failure))]

\* one turn of the batchDeleteNotes loop
batchDeleteTurn(e, ids, results) ==
  The({ IF checks.value # "" THEN BatchStep(checks, ids, results, checks.value)
        ELSE The({ BatchStep(success, ids, results,
                             IF success.value THEN "" ELSE "Deletion failed") :
                   success \in { deleteNoteById(checks.e, Head(ids)) } }) :
        checks \in { BatchChecks(e, Head(ids)) } })

RECURSIVE batchDeleteLoop(_, _, _)
batchDeleteLoop(e, ids, results) ==
  IF ids = <<>> THEN [e |-> e, value |-> results]
  ELSE The({ batchDeleteLoop(turn.e, turn.ids, turn.results) :
             turn \in { batchDeleteTurn(e, ids, results) } })

batchDeleteNotes(e, ids) == batchDeleteLoop(e, ids, <<>>)

\* one turn of the batchMoveNotes loop
batchMoveTurn(e, ids, folder, results) ==
  The({ IF checks.value # "" THEN BatchStep(checks, ids, results, checks.value)
        ELSE The({ BatchStep(success, ids, results,
                             IF success.value THEN "" ELSE "Move failed") :
                   success \in { moveNoteById(checks.e, Head(ids), folder) } }) :
        checks \in { BatchChecks(e, Head(ids)) } })

RECURSIVE batchMoveLoop(_, _, _, _)
batchMoveLoop(e, ids, folder, results) ==
  IF ids = <<>> THEN [e |-> e, value |-> results]
  ELSE The({ batchMoveLoop(turn.e, turn.ids, folder, turn.results) :
             turn \in { batchMoveTurn(e, ids, folder, results) } })

batchMoveNotes(e, ids, folder) == batchMoveLoop(e, ids, folder, <<>>)

\* ------------------------------------------------------------------ inputs
TitleChoices == { <<"Memo">>, <<"Eggs", ",", "Milk">>, <<"Secret">>, <<"Nothing">> }

\* ids of the three initial notes and an id no note has
IdChoices == { NoteId(1), NoteId(2), NoteId(3), NoteId(0) }

IdLists == UNION { [1..k -> IdChoices] : k \in 0..MaxBatchLen }

DestinationChoices == { <<"Archive">>, <<"Nowhere">> }

\* batchMoveNotes runs at most five scripts per id
MaxScripts == (2 + 3) * MaxBatchLen

\* at most one script of an operation fails for a reason of its own
FailingChoices == { {} } \cup { {k} : k \in 1..MaxScripts }

\* --------------------------------------------------------------- actions
\* the operation returned r
Finish(name, target, folder, r) ==
  /\ r.e.fresh <= FirstFresh + MaxCopies
  /\ notes' = r.e.notes
  /\ nfresh' = r.e.fresh
  /\ nlog' = r.e.log
  /\ nret' = [value |-> r.value]
  /\ nop' = [name |-> name, target |-> target, folder |-> folder]
  /\ nbefore' = notes
  /\ npc' = "done"
  /\ UNCHANGED nonNotesVars

MoveNote(title, folder, failing) ==
  /\ npc = "idle"
  /\ Finish("moveNote", title, folder, moveNote(StartEnv(failing), title, folder))

MoveNoteById(id, folder, failing) ==
  /\ npc = "idle"
  /\ Finish("moveNoteById", id, folder, moveNoteById(StartEnv(failing), id, folder))

BatchDeleteNotes(ids, failing) ==
  /\ npc = "idle"
  /\ Finish("batchDeleteNotes", ids, <<>>, batchDeleteNotes(StartEnv(failing), ids))

BatchMoveNotes(ids, folder, failing) ==
  /\ npc = "idle"
  /\ Finish("batchMoveNotes", ids, folder, batchMoveNotes(StartEnv(failing), ids, folder))

\* the caller has taken the returned value
NotesDiscard ==
  /\ npc = "done"
  /\ npc' = "idle"
  /\ nop' = Null
  /\ nret' = Null
  /\ nlog' = <<>>
  /\ nbefore' = notes
  /\ UNCHANGED << notes, nfresh >>
  /\ UNCHANGED nonNotesVars

NotesNext ==
  \/ \E t \in TitleChoices : \E f \in DestinationChoices : \E x \in FailingChoices :
       MoveNote(t, f, x)
  \/ \E id \in IdChoices : \E f \in DestinationChoices : \E x \in FailingChoices :
       MoveNoteById(id, f, x)
  \/ \E ids \in IdLists : \E x \in FailingChoices : BatchDeleteNotes(ids, x)
  \/ \E ids \in IdLists : \E f \in DestinationChoices : \E x \in FailingChoices :
       BatchMoveNotes(ids, f, x)
  \/ NotesDiscard

NotesSpec == Init /\ [][NotesNext]_vars

\* ------------------------------------------------------------ properties
MoveDone == npc = "done" /\ nop.name \in {"moveNote", "moveNoteById"}

BatchDone == npc = "done" /\ nop.name \in {"batchDeleteNotes", "batchMoveNotes"}

\* positions of the log where a command of the kind ran
Ran(kind) == { i \in DOMAIN nlog : nlog[i].cmd.kind = kind }

Succeeded(kind) == { i \in Ran(kind) : nlog[i].ok }

\* the note a finished move was asked to move, as it was before the move
MovedNotes ==
  IF nop.name = "moveNote" THEN WithTitle(nbefore, nop.target)
  ELSE WithId(nbefore, nop.target)

\* the notes the operation created
Created == { n \in DOMAIN notes : n \notin DOMAIN nbefore }

\* C27: moveNote and moveNoteById (also when batchMoveNotes calls it) run
\* the delete of the original only directly after a successful copy into
\* the destination folder, which follows a successful read of the source;
\* when reading the source or making the copy fails, no delete runs, the
\* store is as it was and false is returned.
C27_DeleteOnlyAfterCopy ==
  /\ (npc = "done" /\ nop.name \in {"moveNote", "moveNoteById", "batchMoveNotes"}) =>
       \A i \in Ran("delete") :
         /\ i > 2
         /\ (i - 1) \in Succeeded("make")
         /\ (i - 2) \in Succeeded("body") \cup Succeeded("bodyById")
  /\ MoveDone => \A i \in Ran("delete") : \A j \in 1..(i - 1) : nlog[j].ok
  /\ (MoveDone /\ nop.name = "moveNoteById") =>
       \A i \in Ran("delete") : nlog[i].cmd.target = nop.target
  /\ (MoveDone /\ Succeeded("make") = {}) =>
       /\ Ran("delete") = {}
       /\ nret.value = FALSE
       /\ notes = nbefore

\* a moveNote whose source was read and whose copy failed
C27_Witness ==
  /\ MoveDone
  /\ nop.name = "moveNote"
  /\ Len(nlog) = 3
  /\ nlog[1].ok /\ nlog[2].ok
  /\ nlog[3].cmd.kind = "make" /\ ~nlog[3].ok
  /\ nret.value = FALSE
  /\ notes = nbefore

\* C28: a move returns true exactly when its copy step succeeded; when the
\* copy succeeded and the delete of the original failed it returns true,
\* every note of before is still where it was and the destination folder
\* holds a new note with the source's body.
C28_TrueIffCopied ==
  MoveDone =>
    /\ (nret.value = TRUE) <=> (Succeeded("make") # {})
    /\ (Succeeded("make") # {} /\ Ran("delete") # {} /\ Succeeded("delete") = {}) =>
         /\ nret.value = TRUE
         /\ \A n \in DOMAIN nbefore : n \in DOMAIN notes /\ notes[n] = nbefore[n]
         /\ MovedNotes # {}
         /\ \E c \in Created :
              /\ notes[c].folder = nop.folder
              /\ notes[c].body = nbefore[Min(MovedNotes)].body

\* a moveNoteById whose copy was made and whose delete failed
C28_Witness ==
  /\ MoveDone
  /\ nop.name = "moveNoteById"
  /\ Len(nlog) = 3
  /\ nlog[2].cmd.kind = "make" /\ nlog[2].ok
  /\ nlog[3].cmd.kind = "delete" /\ ~nlog[3].ok
  /\ nret.value = TRUE
  /\ WithId(notes, nop.target) # {}
  /\ Created # {}

BatchErrors ==
  { "Note not found", "Note is password-protected", "Deletion failed", "Move failed" }

\* the results of a finished batch whose id was not found
NotFound == { i \in DOMAIN nret.value :
                /\ "error" \in DOMAIN nret.value[i]
                /\ nret.value[i].error = "Note not found" }

\* C29: a batch returns one result per input id, in input order; every id
\* is looked up (once when it is not found, twice otherwise) whatever became
\* of the ids before it, and every failed result carries one of the errors.
C29_OneResultPerId ==
  BatchDone =>
    /\ Len(nret.value) = Len(nop.target)
    /\ \A i \in DOMAIN nret.value :
         /\ nret.value[i].id = nop.target[i]
         /\ nret.value[i].success <=> "error" \notin DOMAIN nret.value[i]
         /\ ~nret.value[i].success => nret.value[i].error \in BatchErrors
    /\ Cardinality(Ran("getById")) =
         Cardinality(NotFound) + 2 * (Len(nop.target) - Cardinality(NotFound))
    /\ \A i \in DOMAIN nop.target :
         \E j \in Ran("getById") : nlog[j].cmd.target = nop.target[i]

\* a batch whose first id failed and whose second id was deleted
C29_Witness ==
  /\ BatchDone
  /\ nop.name = "batchDeleteNotes"
  /\ Len(nop.target) = 2
  /\ Len(nret.value) = 2
  /\ ~nret.value[1].success
  /\ nret.value[2].success
  /\ WithId(nbefore, nop.target[2]) # {}
  /\ WithId(notes, nop.target[2]) = {}

\* the log entry x is a lookup of the note id
IsLookup(x, id) == x.cmd.kind = "getById" /\ x.cmd.target = id

\* The scripts in log are those the results account for, id by id: one
\* lookup for an id reported not found; two successful lookups, of a locked
\* note, for an id reported password-protected; for any other id a
\* successful lookup, a second lookup and then the delete command, whose
\* outcome is the result's success.
RECURSIVE DeleteLogAccounts(_, _)
DeleteLogAccounts(results, log) ==
  IF results = <<>> THEN log = <<>>
  ELSE LET r == Head(results)
           failure == IF "error" \in DOMAIN r THEN r.error ELSE ""
       IN CASE failure = "Note not found" ->
                 /\ ~r.success
                 /\ Len(log) >= 1
                 /\ IsLookup(log[1], r.id)
                 /\ DeleteLogAccounts(Tail(results), SubSeq(log, 2, Len(log)))
            [] failure = "Note is password-protected" ->
                 /\ ~r.success
                 /\ Len(log) >= 2
                 /\ IsLookup(log[1], r.id) /\ log[1].ok
                 /\ IsLookup(log[2], r.id) /\ log[2].ok
                 /\ \E n \in WithId(nbefore, r.id) : nbefore[n].locked
                 /\ DeleteLogAccounts(Tail(results), SubSeq(log, 3, Len(log)))
            [] OTHER ->
                 /\ Len(log) >= 3
                 /\ IsLookup(log[1], r.id) /\ log[1].ok
                 /\ IsLookup(log[2], r.id)
                 /\ log[2].ok => \A n \in WithId(nbefore, r.id) : ~nbefore[n].locked
                 /\ log[3].cmd.kind = "delete" /\ log[3].cmd.target = r.id
                 /\ log[3].ok <=> r.success
                 /\ DeleteLogAccounts(Tail(results), SubSeq(log, 4, Len(log)))

\* C40: batchDeleteNotes issues no delete command for an id whose lookup
\* failed or whose note was reported password-protected: such an id gets
\* success false with "Note not found" or "Note is password-protected", and
\* a delete command is issued only after both checks of its id passed.
C40_DeleteOnlyAfterChecks ==
  (npc = "done" /\ nop.name = "batchDeleteNotes") =>
    /\ DeleteLogAccounts(nret.value, nlog)
    /\ \A i \in Ran("delete") :
         /\ i > 2
         /\ IsLookup(nlog[i - 2], nlog[i].cmd.target) /\ nlog[i - 2].ok
         /\ IsLookup(nlog[i - 1], nlog[i].cmd.target)

\* a locked note and a plain one: two lookups for the first and no delete,
\* two lookups and the delete for the second
C40_Witness ==
  /\ npc = "done" /\ nop.name = "batchDeleteNotes"
  /\ Len(nret.value) = 2
  /\ ~nret.value[1].success
  /\ nret.value[1].error = "Note is password-protected"
  /\ nret.value[2].success
  /\ Ran("delete") = {5}
  /\ WithId(notes, nop.target[1]) # {}
  /\ WithId(notes, nop.target[2]) = {}

====
